---------------------------- MODULE Spec2Model ----------------------------
(***************************************************************************)
(* A model of the error-tolerant PEG parser of yara-x                      *)
(* (parser/src/parser/mod.rs).                                             *)
(*                                                                         *)
(* The parser is an iterator of CST events.  Every pull (`next`) either    *)
(* pops a buffered event or parses one top-level item.  The grammar rules  *)
(* are chains of combinator calls; the model keeps each grammar rule as a  *)
(* sequence of combinator instructions and executes them one combinator    *)
(* call at a time on an explicit call stack.  A combinator that takes a    *)
(* closure is split into the code that runs before the closure and the     *)
(* code that runs after it.                                                *)
(***************************************************************************)
EXTENDS Integers, Sequences, FiniteSets, TLC

(***************************************************************************)
(* Bounds of the model.                                                    *)
(***************************************************************************)
\* Number of tokens the tokenizer may produce after the scenario's prefix.
MaxExtra == 3
\* Scaled-down fuel budgets: the parser starts with 0..MaxFuel units of
\* fuel, or with the real budget FUEL.
MaxFuel == 5

\* fuel: 100_000_000 in ParserImpl::from
FUEL == 100000000

(***************************************************************************)
(* Tokens.  A token is named by its kind; the tokenizer's lexeme for a     *)
(* kind is a representative one, and gives the token its length in bytes.  *)
(***************************************************************************)
TriviaKinds == {"WHITESPACE", "NEWLINE", "COMMENT"}

is_trivia(tok) == tok \in TriviaKinds

\* Bytes that form no token are given the id UNKNOWN by the tokenizer; the
\* model tells apart what the bytes begin with.
UnknownKinds == {"UNKNOWN", "UNKNOWN_COMMENT", "UNKNOWN_STRING", "UNKNOWN_REGEXP"}

token_id(tok) == IF tok \in UnknownKinds THEN "UNKNOWN" ELSE tok

\* Representative lexemes (source text) of the token kinds the scenarios use.
Lexeme(tok) ==
  CASE tok = "RULE_KW" -> "rule"
    [] tok = "IMPORT_KW" -> "import"
    [] tok = "INCLUDE_KW" -> "include"
    [] tok = "GLOBAL_KW" -> "global"
    [] tok = "PRIVATE_KW" -> "private"
    [] tok = "CONDITION_KW" -> "condition"
    [] tok = "STRINGS_KW" -> "strings"
    [] tok = "META_KW" -> "meta"
    [] tok = "TRUE_KW" -> "true"
    [] tok = "FALSE_KW" -> "false"
    [] tok = "OF_KW" -> "of"
    [] tok = "AT_KW" -> "at"
    [] tok = "ALL_KW" -> "all"
    [] tok = "IDENT" -> "a"
    [] tok = "PATTERN_IDENT" -> "$a"
    [] tok = "STRING_LIT" -> "\"m\""
    [] tok = "INTEGER_LIT" -> "1"
    [] tok = "HEX_BYTE" -> "AB"
    [] tok = "L_BRACE" -> "{"
    [] tok = "R_BRACE" -> "}"
    [] tok = "L_BRACKET" -> "["
    [] tok = "R_BRACKET" -> "]"
    [] tok = "L_PAREN" -> "("
    [] tok = "R_PAREN" -> ")"
    [] tok = "COLON" -> ":"
    [] tok = "EQUAL" -> "="
    [] tok = "DOT" -> "."
    [] tok = "PERCENT" -> "%"
    [] tok = "WHITESPACE" -> " "
    [] tok = "NEWLINE" -> "\n"
    [] tok = "COMMENT" -> "//c"
    [] tok = "UNKNOWN_COMMENT" -> "/*x"
    [] tok = "UNKNOWN_STRING" -> "\"ab"
    [] tok = "UNKNOWN_REGEXP" -> "/ab"
    [] tok = "UNKNOWN" -> "@"
    [] OTHER -> tok

\* Length in bytes of the representative lexeme.
TokLen(tok) ==
  CASE tok \in {"IDENT", "INTEGER_LIT", "L_BRACE", "R_BRACE", "L_BRACKET",
                "R_BRACKET", "L_PAREN", "R_PAREN", "COLON", "EQUAL", "DOT",
                "PERCENT", "WHITESPACE", "NEWLINE", "UNKNOWN"} -> 1
    [] tok \in {"OF_KW", "AT_KW", "PATTERN_IDENT", "HEX_BYTE"} -> 2
    [] tok \in {"ALL_KW", "STRING_LIT", "COMMENT", "UNKNOWN_COMMENT",
                "UNKNOWN_STRING", "UNKNOWN_REGEXP"} -> 3
    [] tok \in {"RULE_KW", "TRUE_KW", "META_KW"} -> 4
    [] tok = "FALSE_KW" -> 5
    [] tok \in {"IMPORT_KW", "GLOBAL_KW"} -> 6
    [] tok \in {"INCLUDE_KW", "PRIVATE_KW", "STRINGS_KW"} -> 7
    [] tok = "CONDITION_KW" -> 9
    [] OTHER -> 2

(***************************************************************************)
(* Combinator instructions.  A grammar rule is a sequence of instructions; *)
(* `body` is the closure passed to the combinator.                         *)
(***************************************************************************)
Instr(op, kind, set, desc, body, n) ==
  [op |-> op, kind |-> kind, set |-> set, desc |-> desc, body |-> body, n |-> n]

Begin(kind) == Instr("begin", kind, <<>>, "", <<>>, 0)
End == Instr("end", "", <<>>, "", <<>>, 0)
EndWithRecovery(set) == Instr("end_with_recovery", "", set, "", <<>>, 0)
ExpectD(set, desc) == Instr("expect", "", set, desc, <<>>, 0)
\* expect(set) is expect_d(set, None)
Expect(set) == ExpectD(set, "")
Opt(body) == Instr("opt", "", <<>>, "", body, 0)
Not(body) == Instr("not", "", <<>>, "", body, 0)
\* opt_expect(set) is opt(|p| p.expect(set))
OptExpect(set) == Opt(<<Expect(set)>>)
IfNext(set, body) == Instr("if_next", "", set, "", body, 0)
Then(body) == Instr("then", "", <<>>, "", body, 0)
\* cond(set, parser) is if_next(set, |p| p.expect(set).then(parser))
Cond(set, body) == IfNext(set, <<Expect(set), Then(body)>>)
NOrMore(n, body) == Instr("n_or_more", "", <<>>, "", body, n)
ZeroOrMore(body) == NOrMore(0, body)
OneOrMore(body) == NOrMore(1, body)
Cached(kind, body) == Instr("cached", kind, <<>>, "", body, 0)
BeginAlt == Instr("begin_alt", "", <<>>, "", <<>>, 0)
Alt(body) == Instr("alt", "", <<>>, "", body, 0)
EndAlt == Instr("end_alt", "", <<>>, "", <<>>, 0)
\* A direct call of a grammar rule: p.boolean_term()
Call(rule) == Instr("call", rule, <<>>, "", <<>>, 0)
EnterHexPatternMode == Instr("enter_hex_pattern_mode", "", <<>>, "", <<>>, 0)
EnterHexJumpMode == Instr("enter_hex_jump_mode", "", <<>>, "", <<>>, 0)

(***************************************************************************)
(* Grammar rules.                                                          *)
(***************************************************************************)
import_stmt ==
  << Begin("IMPORT_STMT"), Expect(<<"IMPORT_KW">>), Expect(<<"STRING_LIT">>),
     End >>

include_stmt ==
  << Begin("INCLUDE_STMT"), Expect(<<"INCLUDE_KW">>), Expect(<<"STRING_LIT">>),
     End >>

RuleDeclRecovery ==
  <<"GLOBAL_KW", "PRIVATE_KW", "RULE_KW", "IMPORT_KW", "INCLUDE_KW">>

rule_decl ==
  << Begin("RULE_DECL"),
     Opt(<<Call("rule_mods")>>),
     Expect(<<"RULE_KW">>),
     Expect(<<"IDENT">>),
     IfNext(<<"COLON">>, <<Call("rule_tags")>>),
     Expect(<<"L_BRACE">>),
     IfNext(<<"META_KW">>, <<Call("meta_blk")>>),
     IfNext(<<"STRINGS_KW">>, <<Call("patterns_blk")>>),
     Then(<<Call("condition_blk")>>),
     Expect(<<"R_BRACE">>),
     EndWithRecovery(RuleDeclRecovery) >>

rule_mods ==
  << Begin("RULE_MODS"),
     BeginAlt,
     Alt(<<Expect(<<"PRIVATE_KW">>), OptExpect(<<"GLOBAL_KW">>)>>),
     Alt(<<Expect(<<"GLOBAL_KW">>), OptExpect(<<"PRIVATE_KW">>)>>),
     EndAlt,
     End >>

rule_tags ==
  << Begin("RULE_TAGS"),
     Expect(<<"COLON">>),
     OneOrMore(<<Expect(<<"IDENT">>)>>),
     EndWithRecovery(<<"L_BRACE">>) >>

meta_blk ==
  << Begin("META_BLK"),
     Expect(<<"META_KW">>),
     Expect(<<"COLON">>),
     OneOrMore(<<Call("meta_def")>>),
     EndWithRecovery(<<"STRINGS_KW", "CONDITION_KW">>) >>

meta_def ==
  << Begin("META_DEF"),
     Expect(<<"IDENT">>),
     Expect(<<"EQUAL">>),
     BeginAlt,
     Alt(<<OptExpect(<<"MINUS">>), Expect(<<"INTEGER_LIT", "FLOAT_LIT">>)>>),
     Alt(<<Expect(<<"STRING_LIT", "TRUE_KW", "FALSE_KW">>)>>),
     EndAlt,
     End >>

patterns_blk ==
  << Begin("PATTERNS_BLK"),
     Expect(<<"STRINGS_KW">>),
     Expect(<<"COLON">>),
     OneOrMore(<<Call("pattern_def")>>),
     EndWithRecovery(<<"CONDITION_KW">>) >>

pattern_def ==
  << Begin("PATTERN_DEF"),
     Expect(<<"PATTERN_IDENT">>),
     Expect(<<"EQUAL">>),
     BeginAlt,
     Alt(<<Expect(<<"STRING_LIT">>)>>),
     Alt(<<Expect(<<"REGEXP">>)>>),
     Alt(<<Call("hex_pattern")>>),
     EndAlt,
     Opt(<<Call("pattern_mods")>>),
     End >>

pattern_mods ==
  << Begin("PATTERN_MODS"), OneOrMore(<<Call("pattern_mod")>>), End >>

pattern_mod ==
  << Begin("PATTERN_MOD"),
     BeginAlt,
     Alt(<<ExpectD(<<"ASCII_KW", "WIDE_KW", "NOCASE_KW", "PRIVATE_KW",
                     "FULLWORD_KW">>, "pattern modifier")>>),
     Alt(<<ExpectD(<<"BASE64_KW", "BASE64WIDE_KW">>, "pattern modifier"),
           Cond(<<"L_PAREN">>,
                <<Expect(<<"STRING_LIT">>), Expect(<<"R_PAREN">>)>>)>>),
     Alt(<<ExpectD(<<"XOR_KW">>, "pattern modifier"),
           Cond(<<"L_PAREN">>,
                <<Expect(<<"INTEGER_LIT">>),
                  Cond(<<"HYPHEN">>, <<Expect(<<"INTEGER_LIT">>)>>),
                  Expect(<<"R_PAREN">>)>>)>>),
     EndAlt,
     End >>

hex_pattern ==
  << Begin("HEX_PATTERN"),
     Expect(<<"L_BRACE">>),
     EnterHexPatternMode,
     Then(<<Call("hex_sub_pattern")>>),
     Expect(<<"R_BRACE">>),
     End >>

hex_sub_pattern ==
  << Begin("HEX_SUB_PATTERN"),
     BeginAlt,
     Alt(<<Expect(<<"HEX_BYTE">>)>>),
     Alt(<<Call("hex_alternative")>>),
     EndAlt,
     ZeroOrMore(<<ZeroOrMore(<<Call("hex_jump")>>),
                  BeginAlt,
                  Alt(<<Expect(<<"HEX_BYTE">>)>>),
                  Alt(<<Call("hex_alternative")>>),
                  EndAlt>>),
     End >>

hex_alternative ==
  << Begin("HEX_ALTERNATIVE"),
     Expect(<<"L_PAREN">>),
     Then(<<Call("hex_sub_pattern")>>),
     ZeroOrMore(<<Expect(<<"PIPE">>), Then(<<Call("hex_sub_pattern")>>)>>),
     Expect(<<"R_PAREN">>),
     End >>

hex_jump ==
  << Begin("HEX_JUMP"),
     Expect(<<"L_BRACKET">>),
     EnterHexJumpMode,
     BeginAlt,
     Alt(<<OptExpect(<<"INTEGER_LIT">>), Expect(<<"HYPHEN">>),
           OptExpect(<<"INTEGER_LIT">>)>>),
     Alt(<<Expect(<<"INTEGER_LIT">>)>>),
     EndAlt,
     Expect(<<"R_BRACKET">>),
     End >>

condition_blk ==
  << Begin("CONDITION_BLK"),
     Expect(<<"CONDITION_KW">>),
     Expect(<<"COLON">>),
     Then(<<Call("boolean_expr")>>),
     EndWithRecovery(<<"R_BRACE">>) >>

boolean_expr ==
  << Begin("BOOLEAN_EXPR"),
     Call("boolean_term"),
     ZeroOrMore(<<ExpectD(<<"AND_KW", "OR_KW">>, "operator"),
                  Then(<<Call("boolean_term")>>)>>),
     End >>

AtOrIn ==
  << BeginAlt,
     Alt(<<Expect(<<"AT_KW">>), Call("expr")>>),
     Alt(<<Expect(<<"IN_KW">>), Call("range")>>),
     EndAlt >>

CompareOps ==
  <<"EQ", "NE", "LE", "LT", "GE", "GT", "CONTAINS_KW", "ICONTAINS_KW",
    "STARTSWITH_KW", "ISTARTSWITH_KW", "ENDSWITH_KW", "IENDSWITH_KW",
    "IEQUALS_KW", "MATCHES_KW">>

boolean_term ==
  << Begin("BOOLEAN_TERM"),
     BeginAlt,
     Alt(<<ExpectD(<<"PATTERN_IDENT">>, "expression"),
           IfNext(<<"AT_KW", "IN_KW">>, AtOrIn)>>),
     Alt(<<ExpectD(<<"TRUE_KW", "FALSE_KW">>, "expression")>>),
     Alt(<<ExpectD(<<"NOT_KW", "DEFINED_KW">>, "expression"),
           Then(<<Call("boolean_term")>>)>>),
     Alt(<<Call("for_expr")>>),
     Alt(<<Call("of_expr")>>),
     Alt(<<Call("with_expr")>>),
     Alt(<<Call("expr"),
           ZeroOrMore(<<ExpectD(CompareOps, "expression"),
                        Then(<<Call("expr")>>)>>)>>),
     Alt(<<ExpectD(<<"L_PAREN">>, "expression"),
           Then(<<Call("boolean_expr")>>),
           Expect(<<"R_PAREN">>)>>),
     EndAlt,
     End >>

ExprOps ==
  <<"ADD", "SUB", "MUL", "DIV", "MOD", "SHL", "SHR", "BITWISE_AND",
    "BITWISE_OR", "BITWISE_XOR", "DOT">>

expr ==
  << Cached("EXPR",
       << Begin("EXPR"),
          Call("term"),
          ZeroOrMore(<<ExpectD(ExprOps, "operator"), Then(<<Call("term")>>)>>),
          End >>) >>

term ==
  << Begin("TERM"),
     BeginAlt,
     Alt(<<Call("func_call")>>),
     Alt(<<Call("primary_expr"),
           Opt(<<BeginAlt,
                 Alt(<<Expect(<<"L_BRACKET">>), Call("expr"),
                       Expect(<<"R_BRACKET">>)>>),
                 Alt(<<Expect(<<"DOT">>), Then(<<Call("func_call")>>)>>),
                 EndAlt>>)>>),
     EndAlt,
     End >>

func_call ==
  << Begin("FUNC_CALL"),
     ExpectD(<<"IDENT">>, "expression"),
     Expect(<<"L_PAREN">>),
     Opt(<<Call("boolean_expr"),
           ZeroOrMore(<<Expect(<<"COMMA">>), Then(<<Call("boolean_expr")>>)>>)>>),
     Expect(<<"R_PAREN">>),
     End >>

range ==
  << Begin("RANGE"),
     Expect(<<"L_PAREN">>),
     Then(<<Call("expr")>>),
     Expect(<<"DOT">>),
     Expect(<<"DOT">>),
     Then(<<Call("expr")>>),
     Expect(<<"R_PAREN">>),
     End >>

primary_expr ==
  << Cached("PRIMARY_EXPR",
       << Begin("PRIMARY_EXPR"),
          BeginAlt,
          Alt(<<ExpectD(<<"FLOAT_LIT", "INTEGER_LIT", "STRING_LIT", "REGEXP",
                          "FILESIZE_KW", "ENTRYPOINT_KW">>, "expression")>>),
          Alt(<<ExpectD(<<"PATTERN_COUNT">>, "expression"),
                Cond(<<"IN_KW">>, <<Call("range")>>)>>),
          Alt(<<ExpectD(<<"PATTERN_OFFSET", "PATTERN_LENGTH">>, "expression"),
                Cond(<<"L_BRACKET">>,
                     <<Call("expr"), Expect(<<"R_BRACKET">>)>>)>>),
          Alt(<<ExpectD(<<"MINUS">>, "expression"), Then(<<Call("term")>>)>>),
          Alt(<<ExpectD(<<"BITWISE_NOT">>, "expression"),
                Then(<<Call("term")>>)>>),
          Alt(<<ExpectD(<<"L_PAREN">>, "expression"),
                Then(<<Call("expr")>>),
                Expect(<<"R_PAREN">>)>>),
          Alt(<<ExpectD(<<"IDENT">>, "expression"),
                ZeroOrMore(<<Expect(<<"DOT">>),
                             Expect(<<"IDENT">>),
                             Not(<<Expect(<<"L_PAREN">>)>>)>>)>>),
          EndAlt,
          End >>) >>

ThemOrTuple ==
  << BeginAlt,
     Alt(<<Expect(<<"THEM_KW">>)>>),
     Alt(<<Call("pattern_ident_tuple")>>),
     EndAlt >>

for_expr ==
  << Begin("FOR_EXPR"),
     Expect(<<"FOR_KW">>),
     Then(<<Call("quantifier")>>),
     BeginAlt,
     Alt(<<Expect(<<"OF_KW">>)>> \o ThemOrTuple),
     Alt(<<Expect(<<"IDENT">>),
           ZeroOrMore(<<Expect(<<"COMMA">>), Expect(<<"IDENT">>)>>),
           Expect(<<"IN_KW">>),
           Then(<<Call("iterable")>>)>>),
     EndAlt,
     Expect(<<"COLON">>),
     Expect(<<"L_PAREN">>),
     Then(<<Call("boolean_expr")>>),
     Expect(<<"R_PAREN">>),
     End >>

of_expr ==
  << Begin("OF_EXPR"),
     Then(<<Call("quantifier")>>),
     Expect(<<"OF_KW">>),
     BeginAlt,
     Alt(ThemOrTuple \o <<IfNext(<<"AT_KW", "IN_KW">>, AtOrIn)>>),
     Alt(<<Call("boolean_expr_tuple"),
           Not(<<Expect(<<"AT_KW", "IN_KW">>)>>)>>),
     EndAlt,
     End >>

with_expr ==
  << Begin("WITH_EXPR"),
     Expect(<<"WITH_KW">>),
     Then(<<Call("with_declarations")>>),
     Expect(<<"COLON">>),
     Expect(<<"L_PAREN">>),
     Then(<<Call("boolean_expr")>>),
     Expect(<<"R_PAREN">>),
     End >>

with_declarations ==
  << Begin("WITH_DECLS"),
     Then(<<Call("with_declaration")>>),
     ZeroOrMore(<<Expect(<<"COMMA">>), Then(<<Call("with_declaration")>>)>>),
     End >>

with_declaration ==
  << Begin("WITH_DECL"),
     Expect(<<"IDENT">>),
     Expect(<<"EQUAL">>),
     Then(<<Call("expr")>>),
     End >>

quantifier ==
  << Begin("QUANTIFIER"),
     BeginAlt,
     Alt(<<Expect(<<"ALL_KW", "NONE_KW", "ANY_KW">>)>>),
     Alt(<<Call("primary_expr"), Expect(<<"PERCENT">>)>>),
     Alt(<<Call("expr"), Not(<<Expect(<<"PERCENT">>)>>)>>),
     EndAlt,
     End >>

iterable ==
  << Begin("ITERABLE"),
     BeginAlt,
     Alt(<<Call("range")>>),
     Alt(<<Call("expr_tuple")>>),
     Alt(<<Call("expr")>>),
     EndAlt,
     End >>

boolean_expr_tuple ==
  << Begin("BOOLEAN_EXPR_TUPLE"),
     Expect(<<"L_PAREN">>),
     Then(<<Call("boolean_expr")>>),
     ZeroOrMore(<<Expect(<<"COMMA">>), Then(<<Call("boolean_expr")>>)>>),
     Expect(<<"R_PAREN">>),
     End >>

expr_tuple ==
  << Begin("EXPR_TUPLE"),
     Expect(<<"L_PAREN">>),
     Then(<<Call("expr")>>),
     ZeroOrMore(<<Expect(<<"COMMA">>), Then(<<Call("expr")>>)>>),
     Expect(<<"R_PAREN">>),
     End >>

pattern_ident_tuple ==
  << Begin("PATTERN_IDENT_TUPLE"),
     Expect(<<"L_PAREN">>),
     Expect(<<"PATTERN_IDENT">>),
     OptExpect(<<"ASTERISK">>),
     ZeroOrMore(<<Expect(<<"COMMA">>), Expect(<<"PATTERN_IDENT">>),
                  OptExpect(<<"ASTERISK">>)>>),
     Expect(<<"R_PAREN">>),
     End >>

Grammar ==
  [ import_stmt |-> import_stmt, include_stmt |-> include_stmt,
    rule_decl |-> rule_decl, rule_mods |-> rule_mods, rule_tags |-> rule_tags,
    meta_blk |-> meta_blk, meta_def |-> meta_def,
    patterns_blk |-> patterns_blk, pattern_def |-> pattern_def,
    pattern_mods |-> pattern_mods, pattern_mod |-> pattern_mod,
    hex_pattern |-> hex_pattern, hex_sub_pattern |-> hex_sub_pattern,
    hex_alternative |-> hex_alternative, hex_jump |-> hex_jump,
    condition_blk |-> condition_blk, boolean_expr |-> boolean_expr,
    boolean_term |-> boolean_term, expr |-> expr, term |-> term,
    func_call |-> func_call, range |-> range, primary_expr |-> primary_expr,
    for_expr |-> for_expr, of_expr |-> of_expr, with_expr |-> with_expr,
    with_declarations |-> with_declarations,
    with_declaration |-> with_declaration, quantifier |-> quantifier,
    iterable |-> iterable, boolean_expr_tuple |-> boolean_expr_tuple,
    expr_tuple |-> expr_tuple, pattern_ident_tuple |-> pattern_ident_tuple ]


(***************************************************************************)
(* State.                                                                  *)
(***************************************************************************)
VARIABLES
  toks,     \* the tokens the tokenizer has produced so far, in source order
  eof,      \* TRUE once the tokenizer has reached the end of the source
  budget,   \* how many more tokens the source may hold
  alpha,    \* the token kinds the rest of the source may hold
  parser,   \* the fields of ParserImpl (with its two streams)
  stack,    \* the call stack of the grammar rules and closures being run
  pc,       \* where `next` stands: "idle", "item" or "skip"
  emitted,  \* the events `next` has returned, in order
  ret,      \* what the last call of `next` returned: "-", "Some" or "None"
  g         \* history: facts about the step just taken

vars == <<toks, eof, budget, alpha, parser, stack, pc, emitted, ret, g>>

Failing(p) == p.state \in {"Failure", "OutOfFuel"}

(***************************************************************************)
(* Spans and the token stream.                                             *)
(***************************************************************************)
\* Byte offset at which token i starts.
Start(i) ==
  LET S[j \in 0..(Len(toks) + 1)] ==
        IF j <= 1 THEN 0 ELSE S[j - 1] + TokLen(toks[j - 1])
  IN S[i]

\* Span of token i.
span(i) == <<Start(i), Start(i) + TokLen(toks[i])>>

\* tokens.source().len()
source_len == Start(Len(toks) + 1)

\* The zero-length span expect_d uses at the end of the source.
eof_span ==
  LET last == IF source_len = 0 THEN 0 ELSE source_len - 1 IN <<last, last>>

\* Index of the token whose span is sp, 0 for an empty span.
TokenAt(sp) ==
  LET at == {i \in 1..Len(toks) : span(i) = sp} IN
  IF at = {} THEN 0 ELSE CHOOSE i \in at : TRUE

\* Source text of a span.
source_text(sp) ==
  LET i == TokenAt(sp) IN IF i = 0 THEN "" ELSE Lexeme(toks[i])

\* tokens.peek_token(0): index of the next token, 0 if there is none.
peek(p) == IF p.pos < Len(toks) THEN p.pos + 1 ELSE 0

\* Index of the first non-trivia token from token i on, 0 if there is none.
FirstNonTrivia(i) ==
  LET F[j \in 1..(Len(toks) + 1)] ==
        IF j > Len(toks) THEN 0
        ELSE IF is_trivia(toks[j]) THEN F[j + 1] ELSE j
  IN F[i]

\* Index of the next non-trivia token, 0 if there is none.
peek_non_trivia(p) == FirstNonTrivia(p.pos + 1)

\* tokens.has_more()
has_more(p) == peek(p) # 0

\* The tokenizer has produced what peek_non_trivia needs.
Lexed == eof \/ FirstNonTrivia(parser.pos + 1) # 0

\* TokenSet::contains: the kind of the set whose token id is the token's.
RECURSIVE contains(_, _)
contains(set, tok) ==
  IF set = <<>> THEN ""
  ELSE IF token_id(Head(set)) = token_id(tok) THEN Head(set)
  ELSE contains(Tail(set), tok)

(***************************************************************************)
(* The event buffer (SyntaxStream).                                        *)
(***************************************************************************)
Event(t, k, s, m, e) == [t |-> t, k |-> k, s |-> s, m |-> m, e |-> e]

NoSpan == <<0, 0>>

BeginEvent(kind) == Event("Begin", kind, NoSpan, <<>>, FALSE)
EndEvent(kind, err) == Event("End", kind, NoSpan, <<>>, err)
TokenEvent(kind, sp) == Event("Token", kind, sp, <<>>, FALSE)
ErrorEvent(msg, sp) == Event("Error", "", sp, msg, FALSE)

RECURSIVE OpenBegin(_, _, _)
\* Position in `out` of the Begin that is still open, scanning back from i.
OpenBegin(out, i, depth) ==
  IF i = 0 THEN 0
  ELSE IF out[i].t = "End" THEN OpenBegin(out, i - 1, depth + 1)
  ELSE IF out[i].t = "Begin"
       THEN IF depth = 0 THEN i ELSE OpenBegin(out, i - 1, depth - 1)
  ELSE OpenBegin(out, i - 1, depth)

OpenKind(out) ==
  LET i == OpenBegin(out, Len(out), 0) IN IF i = 0 THEN "" ELSE out[i].k

output_begin(out, kind) == Append(out, BeginEvent(kind))
output_end(out) == Append(out, EndEvent(OpenKind(out), FALSE))
output_end_with_error(out) == Append(out, EndEvent(OpenKind(out), TRUE))
output_push_token(out, kind, sp) == Append(out, TokenEvent(kind, sp))
output_push_error(out, msg, sp) == Append(out, ErrorEvent(msg, sp))
output_truncate(out, b) == SubSeq(out, 1, b)

(***************************************************************************)
(* ParserImpl: the private API the grammar rules use.                      *)
(***************************************************************************)
bump(p) ==
  LET i == peek(p) IN
  IF i = 0 THEN p
  ELSE [p EXCEPT !.pos = i,
                 !.output = output_push_token(@, toks[i], span(i))]

\* Faulty variant of set_state: it overwrites OutOfFuel too.
set_state_always(p, s) == [p EXCEPT !.state = s]

set_state(p, s) == IF p.state # "OutOfFuel" THEN [p EXCEPT !.state = s] ELSE p

recover(p) == set_state(p, "OK")

\* The loop of trivia: bump while the next token is trivia.
BumpTrivia(p) ==
  LET T[j \in 0..Len(toks)] ==
        IF j < Len(toks) /\ is_trivia(toks[j + 1]) THEN T[j + 1] ELSE j
      last == T[p.pos]
  IN [p EXCEPT !.pos = last,
               !.output = @ \o [k \in 1..(last - p.pos) |->
                                  TokenEvent(toks[p.pos + k], span(p.pos + k))]]

trivia(p) == IF Failing(p) THEN p ELSE BumpTrivia(p)

begin(p, kind) ==
  LET p1 == trivia(p)
      p2 == IF p1.fuel >= 1 THEN [p1 EXCEPT !.fuel = @ - 1]
            ELSE [p1 EXCEPT !.state = "OutOfFuel"]
  IN [p2 EXCEPT !.output = output_begin(@, kind)]

\* Faulty variant of end: a failed production is not closed.
end_unless_failing(p) ==
  IF Failing(p) THEN p ELSE [p EXCEPT !.output = output_end(@)]

end(p) ==
  IF Failing(p) THEN [p EXCEPT !.output = output_end_with_error(@)]
  ELSE [p EXCEPT !.output = output_end(@)]

Bookmark(p) == <<p.pos, Len(p.output)>>

bookmark(p) == [p EXCEPT !.bookmarks = @ + 1]

\* Faulty variant of restore_bookmark: the output is not truncated.
restore_position(p, b) == [p EXCEPT !.pos = b[1]]

restore_bookmark(p, b) ==
  [p EXCEPT !.pos = b[1], !.output = output_truncate(@, b[2])]

remove_bookmark(p) == [p EXCEPT !.bookmarks = @ - 1]

\* Faulty variants of the mode switches: the state is not looked at.
enter_hex_pattern_mode_always(p) == [p EXCEPT !.mode = "hex_pattern"]

enter_hex_jump_mode_always(p) == [p EXCEPT !.mode = "hex_jump"]

enter_hex_pattern_mode(p) ==
  IF Failing(p) THEN p ELSE [p EXCEPT !.mode = "hex_pattern"]

enter_hex_jump_mode(p) ==
  IF Failing(p) THEN p ELSE [p EXCEPT !.mode = "hex_jump"]

\* push_error for every pending error, in order.
PushErrors(out, errs) ==
  out \o [k \in 1..Len(errs) |-> ErrorEvent(errs[k].msg, errs[k].span)]

\* Faulty variant of flush_errors: the queue is emitted last error first.
flush_errors_reversed(p) ==
  LET q == p.pending_errors
  IN [p EXCEPT !.expected_token_errors = {},
               !.unexpected_token_errors = {},
               !.output = PushErrors(@, [k \in 1..Len(q) |-> q[Len(q) + 1 - k]]),
               !.pending_errors = <<>>]

\* Faulty variant of flush_errors: the pending errors are discarded.
flush_errors_drop(p) ==
  [p EXCEPT !.expected_token_errors = {},
            !.unexpected_token_errors = {},
            !.pending_errors = <<>>]

flush_errors(p) ==
  [p EXCEPT !.expected_token_errors = {},
            !.unexpected_token_errors = {},
            !.output = PushErrors(@, p.pending_errors),
            !.pending_errors = <<>>]

(***************************************************************************)
(* Diagnostics.                                                            *)
(***************************************************************************)
InSeq(x, seq) == \E i \in 1..Len(seq) : seq[i] = x

\* IndexSet::extend: insertion order, no duplicates (the descriptions of a
\* token set are distinct).
Extend(exp, descs) ==
  exp \o SelectSeq(descs, LAMBDA d : ~InSeq(d, exp))

\* token.description() of every token id of a set.
descriptions(set) == set

\* Faulty variant of record_expected: what was expected at the span before
\* is forgotten.
record_expected_only(p, sp, id, descs) ==
  [p EXCEPT !.expected_token_errors =
     {r \in @ : r.span # sp} \cup {[span |-> sp, id |-> id, exp |-> descs]}]

\* expected_token_errors.entry(span).or_default(), then the assignments.
record_expected(p, sp, id, descs) ==
  LET old == {r \in p.expected_token_errors : r.span = sp}
      exp0 == IF old = {} THEN <<>> ELSE (CHOOSE r \in old : TRUE).exp
  IN [p EXCEPT !.expected_token_errors =
        (@ \ old) \cup {[span |-> sp, id |-> id, exp |-> Extend(exp0, descs)]}]

\* Faulty variant of JoinComma: another separator.
JoinSemicolon(ds) ==
  IF Len(ds) = 0 THEN <<>>
  ELSE [k \in 1..(2 * Len(ds) - 1) |->
          IF k % 2 = 1 THEN ds[(k + 1) \div 2] ELSE "; "]

RECURSIVE JoinComma(_)
JoinComma(ds) ==
  IF Len(ds) = 0 THEN <<>>
  ELSE IF Len(ds) = 1 THEN <<ds[1]>>
  ELSE <<ds[1], ", ">> \o JoinComma(Tail(ds))

\* The message handle_errors builds, as the pieces it is formatted from
\* (the backquotes around the source text are written as quotes).
error_msg(sp, entry) ==
  LET actual == source_text(sp)
      l == sp[2] - sp[1]
  IN
  IF entry.some
  THEN IF entry.id = "UNKNOWN" /\ l > 0
          /\ toks[TokenAt(sp)] = "UNKNOWN_COMMENT"
       THEN <<"unclosed comment">>
       ELSE IF entry.id = "UNKNOWN" /\ l > 0
          /\ toks[TokenAt(sp)] = "UNKNOWN_STRING"
       THEN <<"unclosed literal string">>
       ELSE IF entry.id = "UNKNOWN" /\ l > 0
          /\ toks[TokenAt(sp)] = "UNKNOWN_REGEXP"
       THEN <<"unclosed regular expression">>
       ELSE
         LET last == entry.exp[Len(entry.exp)]
             rest == SubSeq(entry.exp, 1, Len(entry.exp) - 1)
         IN
         IF Len(rest) = 0
         THEN IF l = 0 THEN <<"expecting ", last, ", found end of file">>
              ELSE IF l > 15 THEN <<"expecting ", last>>
              ELSE <<"expecting ", last, ", found '", actual, "'">>
         ELSE IF l = 0
              THEN <<"expecting ">> \o JoinComma(rest)
                     \o <<" or ", last, ", found end of file">>
              ELSE IF l > 15
              THEN <<"expecting ">> \o JoinComma(rest) \o <<" or ", last>>
              ELSE <<"expecting ">> \o JoinComma(rest)
                     \o <<" or ", last, ", found '", actual, "'">>
  ELSE IF l = 0 THEN <<"unexpected end of file">>
       ELSE <<"unexpected '", actual, "'">>

\* The entries max_by_key may return: those with the largest start.  Which
\* of them it returns depends on the iteration order of the hash map.
MaxByStart(spans) ==
  {s \in spans : \A s2 \in spans : s2[1] <= s[1]}

NoEntry == [some |-> FALSE, span |-> NoSpan, id |-> "", exp |-> <<>>]

\* Faulty variant of resolve_errors: the expected-token entry always wins.
resolve_errors_expected(p, e, uset) ==
  LET u == IF uset = {} THEN NoSpan ELSE CHOOSE s \in uset : TRUE
      haveU == uset # {}
      p1 == [p EXCEPT !.expected_token_errors = {},
                      !.unexpected_token_errors = {}]
      pick == IF ~e.some /\ haveU THEN [NoEntry EXCEPT !.span = u] ELSE e
  IN
  IF ~e.some /\ ~haveU THEN p1
  ELSE IF \E i \in 1..Len(p1.pending_errors) :
             p1.pending_errors[i].span = pick.span
       THEN p1
       ELSE [p1 EXCEPT !.pending_errors =
               Append(@, [span |-> pick.span, msg |-> error_msg(pick.span, pick)])]

\* What handle_errors does once it has picked `e` among the expected-token
\* entries and `u` among the unexpected-token spans (NoEntry/NoSpan: none).
resolve_errors(p, e, uset) ==
  LET u == IF uset = {} THEN NoSpan ELSE CHOOSE s \in uset : TRUE
      haveU == uset # {}
      p1 == [p EXCEPT !.expected_token_errors = {},
                      !.unexpected_token_errors = {}]
      pick == IF e.some /\ haveU /\ u[1] > e.span[1] THEN [NoEntry EXCEPT !.span = u]
              ELSE IF ~e.some /\ haveU THEN [NoEntry EXCEPT !.span = u]
              ELSE e
  IN
  IF ~e.some /\ ~haveU THEN p1
  ELSE IF \E i \in 1..Len(p1.pending_errors) :
             p1.pending_errors[i].span = pick.span
       THEN p1
       ELSE [p1 EXCEPT !.pending_errors =
               Append(@, [span |-> pick.span, msg |-> error_msg(pick.span, pick)])]

\* Faulty variant of handle_errors: it does not look at opt_depth.
handle_errors_always(p) ==
  LET es == {r \in p.expected_token_errors :
               r.span \in MaxByStart({x.span : x \in p.expected_token_errors})}
      us == MaxByStart(p.unexpected_token_errors)
      ecs == IF es = {} THEN {NoEntry}
             ELSE {[some |-> TRUE, span |-> r.span, id |-> r.id, exp |-> r.exp] : r \in es}
      ucs == IF us = {} THEN {{}} ELSE {{s} : s \in us}
  IN {resolve_errors(p, e, u) : e \in ecs, u \in ucs}

\* handle_errors: every outcome the iteration order allows.
handle_errors(p) ==
  IF p.opt_depth > 0 THEN {p}
  ELSE
    LET es == {r \in p.expected_token_errors :
                 r.span \in MaxByStart({x.span : x \in p.expected_token_errors})}
        us == MaxByStart(p.unexpected_token_errors)
        ecs == IF es = {} THEN {NoEntry}
               ELSE {[some |-> TRUE, span |-> r.span, id |-> r.id, exp |-> r.exp] : r \in es}
        ucs == IF us = {} THEN {{}} ELSE {{s} : s \in us}
    IN {resolve_errors(p, e, u) : e \in ecs, u \in ucs}


(***************************************************************************)
(* Combinators without a closure.                                          *)
(***************************************************************************)
\* Faulty variant of expect_consume: the errors are flushed whatever
\* opt_depth is.
expect_consume_flush(p, kind) ==
  LET p1 == trivia(p)
      i == peek(p1)
  IN flush_errors([p1 EXCEPT !.pos = i,
                             !.output = output_push_token(@, kind, span(i))])

\* The tail of expect_d once the token matched: consume it.
expect_consume(p, kind) ==
  LET p1 == trivia(p)
      i == peek(p1)
      p2 == [p1 EXCEPT !.pos = i,
                       !.output = output_push_token(@, kind, span(i))]
  IN IF p2.opt_depth = 0 THEN flush_errors(p2) ELSE p2

\* Faulty variant of expect_d: inside a negation a matching token is not
\* recorded as unexpected.
expect_d_forgets(p, set, desc) ==
  IF Failing(p) THEN {p}
  ELSE
    LET i == peek_non_trivia(p)
        token_span == IF i = 0 THEN eof_span ELSE span(i)
        token_match == IF i = 0 THEN "" ELSE contains(set, toks[i])
        id == IF i = 0 THEN "UNKNOWN" ELSE token_id(toks[i])
        noted ==
          IF p.not_depth = 0 /\ token_match = ""
          THEN handle_errors(
                 record_expected(p, token_span, id,
                    IF desc # "" THEN <<desc>> ELSE descriptions(set)))
          ELSE {p}
    IN {IF token_match # "" THEN expect_consume(q, token_match)
        ELSE set_state(q, "Failure") : q \in noted}

\* Faulty variant of expect_d: a failed expect consumes the trivia in front
\* of the token.
expect_d_eats_trivia(p, set, desc) ==
  IF Failing(p) THEN {p}
  ELSE
    LET i == peek_non_trivia(p)
        token_span == IF i = 0 THEN eof_span ELSE span(i)
        token_match == IF i = 0 THEN "" ELSE contains(set, toks[i])
        id == IF i = 0 THEN "UNKNOWN" ELSE token_id(toks[i])
        noted ==
          IF p.not_depth > 0 /\ token_match # ""
          THEN handle_errors([p EXCEPT !.unexpected_token_errors =
                                          @ \cup {token_span}])
          ELSE IF p.not_depth = 0 /\ token_match = ""
          THEN handle_errors(
                 record_expected(p, token_span, id,
                    IF desc # "" THEN <<desc>> ELSE descriptions(set)))
          ELSE {p}
    IN {IF token_match # "" THEN expect_consume(q, token_match)
        ELSE set_state(trivia(q), "Failure") : q \in noted}

\* expect_d(expected_tokens, description); desc = "" is None.
expect_d(p, set, desc) ==
  IF Failing(p) THEN {p}
  ELSE
    LET i == peek_non_trivia(p)
        token_span == IF i = 0 THEN eof_span ELSE span(i)
        token_match == IF i = 0 THEN "" ELSE contains(set, toks[i])
        id == IF i = 0 THEN "UNKNOWN" ELSE token_id(toks[i])
        noted ==
          IF p.not_depth > 0 /\ token_match # ""
          THEN handle_errors([p EXCEPT !.unexpected_token_errors =
                                          @ \cup {token_span}])
          ELSE IF p.not_depth = 0 /\ token_match = ""
          THEN handle_errors(
                 record_expected(p, token_span, id,
                    IF desc # "" THEN <<desc>> ELSE descriptions(set)))
          ELSE {p}
    IN {IF token_match # "" THEN expect_consume(q, token_match)
        ELSE set_state(q, "Failure") : q \in noted}

\* Faulty variant of end_with_recovery: no error names the recovery set.
end_with_recovery_silent(p, set) ==
  LET i == peek_non_trivia(p) IN
  IF i = 0 \/ contains(set, toks[i]) # ""
  THEN {[p |-> recover(end(p)), done |-> TRUE]}
  ELSE
    LET p1 == set_state(bump(trivia(p)), "Failure") IN
    IF p1.pending_errors = <<>>
    THEN {[p |-> p1, done |-> FALSE]}
    ELSE {[p |-> flush_errors(p1), done |-> FALSE]}

\* Faulty variant of end_with_recovery: errors already pending stay pending.
end_with_recovery_quiet(p, set) ==
  LET i == peek_non_trivia(p) IN
  IF i = 0 \/ contains(set, toks[i]) # ""
  THEN {[p |-> recover(end(p)), done |-> TRUE]}
  ELSE
    LET p1 == set_state(bump(trivia(p)), "Failure") IN
    IF p1.pending_errors = <<>>
    THEN {[p |-> q, done |-> FALSE] :
            q \in handle_errors(
                    record_expected(p1, span(i), token_id(toks[i]),
                                    descriptions(set)))}
    ELSE {[p |-> p1, done |-> FALSE]}

\* end_with_recovery up to its skip loop.  done: it has returned.
end_with_recovery(p, set) ==
  LET i == peek_non_trivia(p) IN
  IF i = 0 \/ contains(set, toks[i]) # ""
  THEN {[p |-> recover(end(p)), done |-> TRUE]}
  ELSE
    LET p1 == set_state(bump(trivia(p)), "Failure") IN
    IF p1.pending_errors = <<>>
    THEN {[p |-> q, done |-> FALSE] :
            q \in handle_errors(
                    record_expected(p1, span(i), token_id(toks[i]),
                                    descriptions(set)))}
    ELSE {[p |-> flush_errors(p1), done |-> FALSE]}

\* Faulty variant of recovery_skip: it stops at the first token.
recovery_stop(p, set) == [p |-> recover(end(p)), done |-> TRUE]

\* One turn of the skip loop of end_with_recovery.
recovery_skip(p, set) ==
  LET i == peek_non_trivia(p) IN
  IF i = 0 \/ contains(set, toks[i]) # ""
  THEN [p |-> recover(end(p)), done |-> TRUE]
  ELSE [p |-> bump(trivia(p)), done |-> FALSE]

\* Faulty variant of if_next: the closure is called whatever the next token.
if_next_blind(p, set) ==
  IF Failing(p) THEN [p |-> p, run |-> FALSE]
  ELSE IF peek_non_trivia(p) = 0 THEN [p |-> p, run |-> FALSE]
  ELSE [p |-> trivia(p), run |-> TRUE]

\* if_next up to the call of its closure.  run: the closure is called.
if_next(p, set) ==
  IF Failing(p) THEN [p |-> p, run |-> FALSE]
  ELSE
    LET i == peek_non_trivia(p) IN
    IF i = 0 THEN [p |-> p, run |-> FALSE]
    ELSE IF contains(set, toks[i]) # ""
    THEN [p |-> trivia(p), run |-> TRUE]
    ELSE [p |-> record_expected(p, span(i), token_id(toks[i]),
                                descriptions(set)),
          run |-> FALSE]

(***************************************************************************)
(* The call stack.  A frame runs the instructions found at `path` in a     *)
(* grammar rule; ctl names the combinator that called them, and bm, n, si  *)
(* and ck are what that combinator keeps across the call.  am and abm are  *)
(* the fields of the Alt that begin_alt created in this frame, ph tells    *)
(* whether end_with_recovery has reached its skip loop.                    *)
(***************************************************************************)
RECURSIVE Walk(_, _)
Walk(code, path) ==
  IF path = <<>> THEN code ELSE Walk(code[Head(path)].body, Tail(path))

Code(f) == Walk(Grammar[f.rule], f.path)

\* was: the state of the parser when the closure was called.
Frame(rule, path, ctl, bm, n, si, ck) ==
  [rule |-> rule, path |-> path, pc |-> 1, ctl |-> ctl, bm |-> bm, n |-> n,
   si |-> si, ck |-> ck, am |-> FALSE, abm |-> NoSpan, ph |-> 0,
   was |-> parser.state]

Top == stack[Len(stack)]
Cur == Code(Top)[Top.pc]
Parent == stack[Len(stack) - 1]

\* The caller goes on with its next instruction.
Advance(stk) == [stk EXCEPT ![Len(stk)].pc = @ + 1, ![Len(stk)].ph = 0]

\* The closure of the current instruction is called.
PushBody(ctl, bm, n, si, ck) ==
  Append(stack, Frame(Top.rule, Append(Top.path, Top.pc), ctl, bm, n, si, ck))

\* The closure has returned to the combinator, which returns too.
PopAdvance == Advance(SubSeq(stack, 1, Len(stack) - 1))

\* The closure has returned to the combinator, which calls it again.
PopPush(ctl, bm, n) ==
  Append(SubSeq(stack, 1, Len(stack) - 1),
         Frame(Top.rule, Top.path, ctl, bm, n, 0, ""))

Running(op) ==
  /\ pc = "item"
  /\ Lexed
  /\ Top.pc <= Len(Code(Top))
  /\ Cur.op = op

Returning(ctl) ==
  /\ pc = "item"
  /\ Lexed
  /\ Top.pc > Len(Code(Top))
  /\ Top.ctl = ctl

\* Index of the last token the stream has produced once peek_non_trivia has
\* looked from the position of p: the first non-trivia token, or the last
\* token of the source when there is none.
Materialized(p) ==
  IF peek_non_trivia(p) # 0 THEN peek_non_trivia(p) ELSE Len(toks)

\* The steps of end_with_recovery and of the driver, which peek in any state.
RecoveryOps ==
  {"end_with_recovery", "recovery_bump", "recovery_skip", "recovered"}
DriverOps == {"item", "item_done", "top_level_skip"}

\* History of the step just taken.  peeked: index of the last token the
\* stream has produced so far.  commit: the position and the number of
\* events produced when expect last consumed a token at opt_depth 0.
\* skipped: a token was skipped during the current call of next.
Hist(op, p2, amb, rs, bm) ==
  [op |-> op, starved |-> g.starved \/ p2.state = "OutOfFuel", amb |-> amb,
   rs |-> rs, bm |-> bm, item_pos |-> g.item_pos,
   skipped |-> IF op \in {"recovery_bump", "recovery_skip", "top_level_skip"}
               THEN TRUE
               ELSE IF pc = "idle" THEN FALSE ELSE g.skipped,
   commit |-> IF op = "expect" /\ parser.opt_depth = 0 /\ p2.pos > parser.pos
              THEN <<p2.pos, Len(emitted) + Len(p2.output)>>
              ELSE g.commit,
   peeked |-> IF \/ op \in {"expect", "if_next"} /\ ~Failing(parser)
                 \/ op \in RecoveryOps \cup DriverOps
              THEN IF Materialized(parser) > g.peeked
                   THEN Materialized(parser) ELSE g.peeked
              ELSE g.peeked]

Source == <<toks, eof, budget, alpha>>
Caller == <<pc, emitted, ret>>

(***************************************************************************)
(* One action per combinator call.                                         *)
(***************************************************************************)
DoBegin ==
  /\ Running("begin")
  /\ parser' = begin(parser, Cur.kind)
  /\ stack' = Advance(stack)
  /\ g' = Hist("begin", parser', FALSE, <<>>, NoSpan)
  /\ UNCHANGED <<Source, Caller>>

DoEnd ==
  /\ Running("end")
  /\ parser' = end(parser)
  /\ stack' = Advance(stack)
  /\ g' = Hist("end", parser', FALSE, <<>>, NoSpan)
  /\ UNCHANGED <<Source, Caller>>

DoExpect ==
  /\ Running("expect")
  /\ LET outcomes == expect_d(parser, Cur.set, Cur.desc) IN
     /\ parser' \in outcomes
     /\ g' = Hist("expect", parser', Cardinality(outcomes) > 1, Cur.set, NoSpan)
  /\ stack' = Advance(stack)
  /\ UNCHANGED <<Source, Caller>>

DoEndWithRecovery ==
  /\ Running("end_with_recovery")
  /\ Top.ph = 0
  /\ LET outcomes == end_with_recovery(parser, Cur.set) IN
     \E r \in outcomes :
       /\ parser' = r.p
       /\ stack' = IF r.done THEN Advance(stack)
                   ELSE [stack EXCEPT ![Len(stack)].ph = 1]
       /\ g' = Hist(IF r.done THEN "end_with_recovery" ELSE "recovery_bump",
                    parser', Cardinality(outcomes) > 1, Cur.set, NoSpan)
  /\ UNCHANGED <<Source, Caller>>

DoRecoverySkip ==
  /\ Running("end_with_recovery")
  /\ Top.ph = 1
  /\ LET r == recovery_skip(parser, Cur.set) IN
     /\ parser' = r.p
     /\ stack' = IF r.done THEN Advance(stack) ELSE stack
     /\ g' = Hist(IF r.done THEN "recovered" ELSE "recovery_skip",
                  parser', FALSE, Cur.set, NoSpan)
  /\ UNCHANGED <<Source, Caller>>

DoEnterHexPatternMode ==
  /\ Running("enter_hex_pattern_mode")
  /\ parser' = enter_hex_pattern_mode(parser)
  /\ stack' = Advance(stack)
  /\ g' = Hist("enter_hex_pattern_mode", parser', FALSE, <<>>, NoSpan)
  /\ UNCHANGED <<Source, Caller>>

DoEnterHexJumpMode ==
  /\ Running("enter_hex_jump_mode")
  /\ parser' = enter_hex_jump_mode(parser)
  /\ stack' = Advance(stack)
  /\ g' = Hist("enter_hex_jump_mode", parser', FALSE, <<>>, NoSpan)
  /\ UNCHANGED <<Source, Caller>>

\* A grammar rule is called directly; it returns with RetPlain.
DoCall ==
  /\ Running("call")
  /\ stack' = Append(stack, Frame(Cur.kind, <<>>, "plain", NoSpan, 0, 0, ""))
  /\ g' = Hist("call", parser, FALSE, <<>>, NoSpan)
  /\ UNCHANGED <<Source, Caller, parser>>

RetPlain ==
  /\ Returning("plain")
  /\ stack' = PopAdvance
  /\ g' = Hist("return", parser, FALSE, <<>>, NoSpan)
  /\ UNCHANGED <<Source, Caller, parser>>


(***************************************************************************)
(* Combinators that take a closure: the call, and the return.              *)
(***************************************************************************)
DoThen ==
  /\ Running("then")
  /\ IF Failing(parser)
     THEN /\ parser' = parser
          /\ stack' = Advance(stack)
     ELSE /\ parser' = trivia(parser)
          /\ stack' = PushBody("plain", NoSpan, 0, 0, "")
  /\ g' = Hist("then", parser', FALSE, <<>>, NoSpan)
  /\ UNCHANGED <<Source, Caller>>

DoIfNext ==
  /\ Running("if_next")
  /\ LET r == if_next(parser, Cur.set) IN
     /\ parser' = r.p
     /\ stack' = IF r.run THEN PushBody("plain", NoSpan, 0, 0, "")
                 ELSE Advance(stack)
  /\ g' = Hist("if_next", parser', FALSE, Cur.set, NoSpan)
  /\ UNCHANGED <<Source, Caller>>

\* Faulty variant of opt_enter: the optional depth is not raised.
opt_enter_shallow(p) == trivia(bookmark(p))

\* opt, up to the call of the closure.
opt_enter(p) == [trivia(bookmark(p)) EXCEPT !.opt_depth = @ + 1]

\* Faulty variant of opt_exit: a failed optional production is not rewound.
opt_exit_keep(p, bm) ==
  LET p1 == [p EXCEPT !.opt_depth = @ - 1]
  IN remove_bookmark(IF p1.state = "Failure" THEN recover(p1) ELSE p1)

\* opt, after the closure returned.
opt_exit(p, bm) ==
  LET p1 == [p EXCEPT !.opt_depth = @ - 1]
      p2 == IF p1.state = "Failure" THEN restore_bookmark(recover(p1), bm)
            ELSE p1
  IN remove_bookmark(p2)

DoOpt ==
  /\ Running("opt")
  /\ IF Failing(parser)
     THEN /\ parser' = parser
          /\ stack' = Advance(stack)
     ELSE /\ parser' = opt_enter(parser)
          /\ stack' = PushBody("opt", Bookmark(parser), 0, 0, "")
  /\ g' = Hist("opt", parser', FALSE, <<>>, NoSpan)
  /\ UNCHANGED <<Source, Caller>>

RetOpt ==
  /\ Returning("opt")
  /\ parser' = opt_exit(parser, Top.bm)
  /\ stack' = PopAdvance
  /\ g' = Hist("opt_return", parser', FALSE, <<>>, Top.bm)
  /\ UNCHANGED <<Source, Caller>>

\* Faulty variant of not_enter: not_depth is not incremented.
not_enter_shallow(p) == trivia(bookmark(p))

\* not, up to the call of the closure.
not_enter(p) == [trivia(bookmark(p)) EXCEPT !.not_depth = @ + 1]

\* Faulty variant of not_exit: only a failed production is rewound.
not_exit_forward(p, bm) ==
  LET p1 == [p EXCEPT !.not_depth = @ - 1] IN
  CASE p1.state = "OK" -> remove_bookmark([p1 EXCEPT !.state = "Failure"])
    [] p1.state = "Failure" ->
         remove_bookmark(restore_bookmark([p1 EXCEPT !.state = "OK"], bm))
    [] p1.state = "OutOfFuel" -> remove_bookmark(restore_bookmark(p1, bm))

\* not, after the closure returned.
not_exit(p, bm) ==
  LET p1 == [p EXCEPT !.not_depth = @ - 1]
      p2 == [p1 EXCEPT !.state = CASE p1.state = "OK" -> "Failure"
                                   [] p1.state = "Failure" -> "OK"
                                   [] p1.state = "OutOfFuel" -> "OutOfFuel"]
  IN remove_bookmark(restore_bookmark(p2, bm))

DoNot ==
  /\ Running("not")
  /\ IF Failing(parser)
     THEN /\ parser' = parser
          /\ stack' = Advance(stack)
     ELSE /\ parser' = not_enter(parser)
          /\ stack' = PushBody("not", Bookmark(parser), 0, 0, "")
  /\ g' = Hist("not", parser', FALSE, <<>>, NoSpan)
  /\ UNCHANGED <<Source, Caller>>

RetNot ==
  /\ Returning("not")
  /\ parser' = not_exit(parser, Top.bm)
  /\ stack' = PopAdvance
  /\ g' = Hist("not_return", parser', FALSE, <<>>, Top.bm)
  /\ UNCHANGED <<Source, Caller>>

\* n_or_more: the start of one turn of its `loop`.
loop_enter(p) == [trivia(bookmark(p)) EXCEPT !.opt_depth = @ + 1]

\* Faulty variant of loop_exit: the last, failed turn is not rewound.
loop_exit_keep(p, bm) ==
  LET p1 == [p EXCEPT !.opt_depth = @ - 1] IN
  IF Failing(p1)
  THEN [p |-> remove_bookmark(recover(p1)), again |-> FALSE]
  ELSE [p |-> remove_bookmark(p1), again |-> TRUE]

\* n_or_more: after the closure returned in the `loop`.  again: one more turn.
loop_exit(p, bm) ==
  LET p1 == [p EXCEPT !.opt_depth = @ - 1] IN
  IF Failing(p1)
  THEN [p |-> remove_bookmark(restore_bookmark(recover(p1), bm)),
        again |-> FALSE]
  ELSE [p |-> remove_bookmark(p1), again |-> TRUE]

DoNOrMore ==
  /\ Running("n_or_more")
  /\ IF Failing(parser)
     THEN /\ parser' = parser
          /\ stack' = Advance(stack)
     ELSE IF Cur.n >= 1
     THEN /\ parser' = trivia(parser)
          /\ stack' = PushBody("mandatory", NoSpan, Cur.n, 0, "")
     ELSE /\ parser' = loop_enter(parser)
          /\ stack' = PushBody("loop", Bookmark(parser), 0, 0, "")
  /\ g' = Hist("n_or_more", parser', FALSE, <<>>, NoSpan)
  /\ UNCHANGED <<Source, Caller>>

\* One of the first n calls of the closure returned.
RetMandatory ==
  /\ Returning("mandatory")
  /\ IF Failing(parser)
     THEN /\ parser' = parser
          /\ stack' = PopAdvance
     ELSE IF Top.n > 1
     THEN /\ parser' = trivia(parser)
          /\ stack' = PopPush("mandatory", NoSpan, Top.n - 1)
     ELSE /\ parser' = loop_enter(parser)
          /\ stack' = PopPush("loop", Bookmark(parser), 0)
  /\ g' = Hist("mandatory_return", parser', FALSE, <<>>, NoSpan)
  /\ UNCHANGED <<Source, Caller>>

RetLoop ==
  /\ Returning("loop")
  /\ LET r == loop_exit(parser, Top.bm) IN
     IF r.again
     THEN /\ parser' = loop_enter(r.p)
          /\ stack' = PopPush("loop", Bookmark(r.p), 0)
     ELSE /\ parser' = r.p
          /\ stack' = PopAdvance
  /\ g' = Hist("loop_return", parser', FALSE, <<>>, Top.bm)
  /\ UNCHANGED <<Source, Caller>>

\* tokens.current_token_index()
current_token_index(p) == p.pos

\* cached, up to the call of the closure.  run: the closure is called.
cached_enter(p, kind) ==
  IF p.state = "OutOfFuel" THEN [p |-> p, run |-> FALSE]
  ELSE IF <<current_token_index(p), kind>> \in p.cache
  THEN [p |-> set_state(p, "Failure"), run |-> FALSE]
  ELSE [p |-> p, run |-> TRUE]

\* cached, after the closure returned.
cached_exit(p, start_index, kind) ==
  IF p.state = "Failure"
  THEN [p EXCEPT !.cache = @ \cup {<<start_index, kind>>}]
  ELSE p

DoCached ==
  /\ Running("cached")
  /\ LET r == cached_enter(parser, Cur.kind) IN
     /\ parser' = r.p
     /\ stack' = IF r.run
                 THEN PushBody("cached", NoSpan, 0,
                               current_token_index(parser), Cur.kind)
                 ELSE Advance(stack)
  /\ g' = Hist("cached", parser', FALSE, <<>>, NoSpan)
  /\ UNCHANGED <<Source, Caller>>

RetCached ==
  /\ Returning("cached")
  /\ parser' = cached_exit(parser, Top.si, Top.ck)
  /\ stack' = PopAdvance
  /\ g' = Hist("cached_return", parser', FALSE, <<>>, NoSpan)
  /\ UNCHANGED <<Source, Caller>>

(***************************************************************************)
(* Alternatives.                                                           *)
(***************************************************************************)
DoBeginAlt ==
  /\ Running("begin_alt")
  /\ parser' = bookmark(parser)
  /\ stack' = [Advance(stack) EXCEPT ![Len(stack)].am = FALSE,
                                     ![Len(stack)].abm = Bookmark(parser)]
  /\ g' = Hist("begin_alt", parser', FALSE, <<>>, Bookmark(parser))
  /\ UNCHANGED <<Source, Caller>>

\* Alt::alt, up to the call of the closure.
alt_enter(p) == [trivia(p) EXCEPT !.opt_depth = @ + 1]

\* Faulty variant of alt_exit: a failed alternative is not rewound.
alt_exit_keep(p, matched, bm) ==
  LET p1 == [p EXCEPT !.opt_depth = @ - 1] IN
  CASE p1.state = "OK" -> [p |-> p1, matched |-> TRUE]
    [] p1.state = "Failure" -> [p |-> recover(p1), matched |-> matched]
    [] p1.state = "OutOfFuel" -> [p |-> p1, matched |-> matched]

\* Alt::alt, after the closure returned: the parser, and Alt::matched.
alt_exit(p, matched, bm) ==
  LET p1 == [p EXCEPT !.opt_depth = @ - 1] IN
  CASE p1.state = "OK" -> [p |-> p1, matched |-> TRUE]
    [] p1.state = "Failure" ->
         [p |-> restore_bookmark(recover(p1), bm), matched |-> matched]
    [] p1.state = "OutOfFuel" -> [p |-> p1, matched |-> matched]

DoAlt ==
  /\ Running("alt")
  /\ IF Failing(parser) \/ Top.am
     THEN /\ parser' = parser
          /\ stack' = Advance(stack)
          /\ g' = Hist("alt_skip", parser', FALSE, <<>>, Top.abm)
     ELSE /\ parser' = alt_enter(parser)
          /\ stack' = PushBody("alt", NoSpan, 0, 0, "")
          /\ g' = Hist("alt_run", parser', FALSE, <<>>, Top.abm)
  /\ UNCHANGED <<Source, Caller>>

RetAlt ==
  /\ Returning("alt")
  /\ LET r == alt_exit(parser, Parent.am, Parent.abm) IN
     /\ parser' = r.p
     /\ stack' = [PopAdvance EXCEPT ![Len(stack) - 1].am = r.matched]
  /\ g' = Hist("alt_return", parser', FALSE, <<>>, Parent.abm)
  /\ UNCHANGED <<Source, Caller>>

\* Faulty variant of end_alt: the bookmark of the choice is not removed.
end_alt_leaky(p, matched) ==
  IF matched THEN {set_state(p, "OK")}
  ELSE handle_errors(set_state(p, "Failure"))

\* Faulty variant of end_alt: a choice none of whose alternatives matched
\* does not fail.
end_alt_lenient(p, matched) ==
  IF matched THEN {set_state(remove_bookmark(p), "OK")}
  ELSE handle_errors(set_state(remove_bookmark(p), "OK"))

\* Faulty variant of end_alt: no diagnostic when no alternative matched.
end_alt_silent(p, matched) ==
  {set_state(remove_bookmark(p), IF matched THEN "OK" ELSE "Failure")}

\* Alt::end_alt
end_alt(p, matched) ==
  LET p1 == remove_bookmark(p) IN
  IF matched THEN {set_state(p1, "OK")}
  ELSE handle_errors(set_state(p1, "Failure"))

DoEndAlt ==
  /\ Running("end_alt")
  /\ LET outcomes == end_alt(parser, Top.am) IN
     /\ parser' \in outcomes
     /\ g' = Hist("end_alt", parser', Cardinality(outcomes) > 1, <<>>, Top.abm)
  /\ stack' = Advance(stack)
  /\ UNCHANGED <<Source, Caller>>


(***************************************************************************)
(* The iterator: ParserImpl::next, and top_level_item.                     *)
(***************************************************************************)
SourceFileBegin == BeginEvent("SOURCE_FILE")
SourceFileEnd == EndEvent("SOURCE_FILE", FALSE)

\* Faulty variant of after_item: the failure cache is kept.
after_item_keep_cache(p) == set_state(flush_errors(p), "OK")

\* What next does after top_level_item returned, up to the pop.
after_item(p) ==
  set_state([flush_errors(p) EXCEPT !.cache = {}], "OK")

\* top_level_item, when no token starts an item: up to its skip loop.
top_level_error(p) ==
  LET i == peek(p) IN
  [p EXCEPT !.output =
     output_begin(
       output_push_error(@, <<"expecting import statement or rule definition">>,
                         span(i)),
       "ERROR")]

\* Faulty variant of top_level_skip: the loop consumes nothing.
top_level_stay(p) ==
  LET i == peek_non_trivia(p) IN
  IF i = 0 \/ toks[i] \in {"GLOBAL_KW", "PRIVATE_KW", "RULE_KW"}
  THEN [p |-> set_state([p EXCEPT !.output = output_end(@)], "Failure"),
        done |-> TRUE]
  ELSE [p |-> trivia(p), done |-> FALSE]

\* One turn of the skip loop of top_level_item.
top_level_skip(p) ==
  LET i == peek_non_trivia(p) IN
  IF i = 0 \/ toks[i] \in {"GLOBAL_KW", "PRIVATE_KW", "RULE_KW"}
  THEN [p |-> set_state([p EXCEPT !.output = output_end(@)], "Failure"),
        done |-> TRUE]
  ELSE [p |-> bump(trivia(p)), done |-> FALSE]

\* The grammar rule top_level_item calls for a token, "" if none.
top_level_rule(tok) ==
  CASE tok = "IMPORT_KW" -> "import_stmt"
    [] tok = "INCLUDE_KW" -> "include_stmt"
    [] tok \in {"GLOBAL_KW", "PRIVATE_KW", "RULE_KW"} -> "rule_decl"
    [] OTHER -> ""

\* Faulty variant of should_parse: the fuel is not looked at.
parse_while_more(p) == has_more(p)

\* The test of next before it parses a top-level item.
should_parse(p) == p.state # "OutOfFuel" /\ has_more(p)

\* Faulty variant of Return: the end of the source file is not announced.
ReturnQuietly(p) ==
  IF p.output # <<>>
  THEN /\ parser' = [p EXCEPT !.output = Tail(@)]
       /\ emitted' = Append(emitted, Head(p.output))
  ELSE /\ parser' = [p EXCEPT !.state = "EndOfInput"]
       /\ emitted' = emitted

\* The end of next: pop a buffered event, or end the source file.
Return(p) ==
  IF p.output # <<>>
  THEN /\ parser' = [p EXCEPT !.output = Tail(@)]
       /\ emitted' = Append(emitted, Head(p.output))
  ELSE /\ parser' = [p EXCEPT !.state = "EndOfInput"]
       /\ emitted' = Append(emitted, SourceFileEnd)

NextStartOfInput ==
  /\ pc = "idle"
  /\ parser.state = "StartOfInput"
  /\ parser' = [parser EXCEPT !.state = "OK"]
  /\ emitted' = Append(emitted, SourceFileBegin)
  /\ ret' = "Some"
  /\ g' = Hist("next", parser', FALSE, <<>>, NoSpan)
  /\ UNCHANGED <<Source, stack, pc>>

NextEndOfInput ==
  /\ pc = "idle"
  /\ parser.state = "EndOfInput"
  /\ ret' = "None"
  /\ g' = Hist("next", parser, FALSE, <<>>, NoSpan)
  /\ UNCHANGED <<Source, parser, stack, pc, emitted>>

\* The output buffer holds an event: next returns it.
NextBuffered ==
  /\ pc = "idle"
  /\ parser.state \notin {"StartOfInput", "EndOfInput"}
  /\ parser.output # <<>>
  /\ Return(parser)
  /\ ret' = "Some"
  /\ g' = Hist("next", parser', FALSE, <<>>, NoSpan)
  /\ UNCHANGED <<Source, stack, pc>>

\* The buffer is empty and nothing is left to parse, or the fuel ran out.
NextEndOfSource ==
  /\ pc = "idle"
  /\ parser.state \notin {"StartOfInput", "EndOfInput"}
  /\ parser.output = <<>>
  /\ Lexed \/ parser.state = "OutOfFuel"
  /\ ~should_parse(parser)
  /\ Return(parser)
  /\ ret' = "Some"
  /\ g' = Hist("next", parser', FALSE, <<>>, NoSpan)
  /\ UNCHANGED <<Source, stack, pc>>

\* The buffer is empty and tokens are left: next parses a top-level item.
NextParse ==
  /\ pc = "idle"
  /\ parser.state \notin {"StartOfInput", "EndOfInput"}
  /\ parser.output = <<>>
  /\ Lexed \/ parser.state = "OutOfFuel"
  /\ should_parse(parser)
  /\ LET p1 == trivia(parser)
         i == peek(p1)
         rule == IF i = 0 THEN "" ELSE top_level_rule(toks[i])
     IN
     IF i = 0
     THEN /\ Return(after_item(set_state(p1, "Failure")))
          /\ ret' = "Some"
          /\ UNCHANGED <<stack, pc>>
          /\ g' = [Hist("item_done", parser', FALSE, <<>>, NoSpan)
                     EXCEPT !.item_pos = parser.pos]
     ELSE IF rule # ""
     THEN /\ parser' = p1
          /\ stack' = <<Frame(rule, <<>>, "top", NoSpan, 0, 0, "")>>
          /\ pc' = "item"
          /\ UNCHANGED <<emitted, ret>>
          /\ g' = [Hist("item", parser', FALSE, <<>>, NoSpan)
                     EXCEPT !.item_pos = parser.pos]
     ELSE /\ parser' = top_level_error(p1)
          /\ pc' = "skip"
          /\ UNCHANGED <<stack, emitted, ret>>
          /\ g' = [Hist("item", parser', FALSE, <<>>, NoSpan)
                     EXCEPT !.item_pos = parser.pos]
  /\ UNCHANGED Source

\* top_level_item skips the tokens that start no item.
NextSkip ==
  /\ pc = "skip"
  /\ Lexed
  /\ LET r == top_level_skip(parser) IN
     IF r.done
     THEN /\ Return(after_item(r.p))
          /\ ret' = "Some"
          /\ pc' = "idle"
          /\ g' = Hist("item_done", parser', FALSE, <<>>, NoSpan)
     ELSE /\ parser' = r.p
          /\ UNCHANGED <<pc, emitted, ret>>
          /\ g' = Hist("top_level_skip", parser', FALSE, <<>>, NoSpan)
  /\ UNCHANGED <<Source, stack>>

\* The grammar rule top_level_item called has returned.
RetTop ==
  /\ Returning("top")
  /\ Return(after_item(parser))
  /\ ret' = "Some"
  /\ pc' = "idle"
  /\ stack' = <<>>
  /\ g' = Hist("item_done", parser', FALSE, <<>>, NoSpan)
  /\ UNCHANGED Source

(***************************************************************************)
(* The tokenizer produces tokens on demand.                                *)
(***************************************************************************)
NeedsToken ==
  /\ ~Lexed
  /\ \/ pc \in {"item", "skip"}
     \/ /\ pc = "idle"
        /\ parser.state \in {"OK", "Failure"}
        /\ parser.output = <<>>

LexToken ==
  /\ NeedsToken
  /\ budget > 0
  /\ \E tok \in alpha : toks' = Append(toks, tok)
  /\ budget' = budget - 1
  /\ UNCHANGED <<eof, alpha, parser, stack, pc, emitted, ret, g>>

LexEnd ==
  /\ NeedsToken
  /\ eof' = TRUE
  /\ UNCHANGED <<toks, budget, alpha, parser, stack, pc, emitted, ret, g>>

(***************************************************************************)
(* Sources.  A scenario is the first tokens of a source and the kinds of   *)
(* the tokens that may follow them.                                        *)
(***************************************************************************)
RuleHead == <<"RULE_KW", "WHITESPACE", "IDENT", "L_BRACE">>
ConditionHead == RuleHead \o <<"CONDITION_KW", "COLON">>
ValidRule == ConditionHead \o <<"TRUE_KW", "R_BRACE">>
HexRule ==
  RuleHead \o <<"STRINGS_KW", "COLON", "PATTERN_IDENT", "EQUAL", "L_BRACE",
                "HEX_BYTE", "L_BRACKET", "INTEGER_LIT", "R_BRACKET", "HEX_BYTE",
                "R_BRACE", "CONDITION_KW", "COLON", "PATTERN_IDENT", "R_BRACE">>

\* A valid rule with trivia between its tokens.
SpacedRule ==
  <<"RULE_KW", "WHITESPACE", "IDENT", "WHITESPACE", "L_BRACE", "NEWLINE",
    "CONDITION_KW", "COLON", "WHITESPACE", "FALSE_KW", "COMMENT", "NEWLINE",
    "R_BRACE">>
\* Two valid rules.
TwoRules == ValidRule \o <<"NEWLINE">> \o SpacedRule \o <<"WHITESPACE">>
\* Two valid rules with a token between them that starts no top-level item.
StrayBetweenRules ==
  ValidRule \o <<"WHITESPACE", "IDENT", "WHITESPACE">> \o SpacedRule

\* A rule up to a field access in its condition.
FieldAccess == ConditionHead \o <<"IDENT", "DOT", "IDENT">>

\* A rule up to a parenthesised boolean expression after `all of`.
OfTuple ==
  ConditionHead \o <<"ALL_KW", "WHITESPACE", "OF_KW", "L_PAREN", "TRUE_KW",
                     "R_PAREN", "WHITESPACE">>

Scenarios ==
  { [pre |-> <<>>, extra |-> MaxExtra,
     alpha |-> {"RULE_KW", "IDENT", "L_BRACE", "WHITESPACE", "IMPORT_KW",
                "STRING_LIT", "PRIVATE_KW"}],
    [pre |-> ConditionHead, extra |-> MaxExtra,
     alpha |-> {"TRUE_KW", "IDENT", "DOT", "L_PAREN", "R_BRACE", "WHITESPACE",
                "RULE_KW", "UNKNOWN_COMMENT"}],
    [pre |-> ValidRule, extra |-> MaxExtra,
     alpha |-> {"RULE_KW", "IDENT", "WHITESPACE", "R_BRACE"}],
    [pre |-> HexRule, extra |-> 0, alpha |-> {}],
    [pre |-> TwoRules, extra |-> 0, alpha |-> {}],
    [pre |-> StrayBetweenRules, extra |-> 0, alpha |-> {}],
    [pre |-> ConditionHead, extra |-> 2,
     alpha |-> {"TRUE_KW", "WHITESPACE", "UNKNOWN_COMMENT", "UNKNOWN_STRING"}],
    [pre |-> FieldAccess, extra |-> 2,
     alpha |-> {"L_PAREN", "R_PAREN", "R_BRACE", "WHITESPACE"}],
    [pre |-> OfTuple, extra |-> 1, alpha |-> {"AT_KW", "R_BRACE"}] }

InitParser(fuel) ==
  [state |-> "StartOfInput", pos |-> 0, output |-> <<>>, opt_depth |-> 0,
   not_depth |-> 0, expected_token_errors |-> {},
   unexpected_token_errors |-> {}, pending_errors |-> <<>>, cache |-> {},
   fuel |-> fuel, mode |-> "normal", bookmarks |-> 0]

Init ==
  /\ \E sc \in Scenarios :
       /\ toks = sc.pre
       /\ budget = sc.extra
       /\ alpha = sc.alpha
  /\ eof = FALSE
  /\ \E fuel \in (0..MaxFuel) \cup {FUEL} : parser = InitParser(fuel)
  /\ stack = <<>>
  /\ pc = "idle"
  /\ emitted = <<>>
  /\ ret = "-"
  /\ g = [op |-> "new", starved |-> FALSE, amb |-> FALSE, rs |-> <<>>,
          bm |-> NoSpan, item_pos |-> 0, commit |-> <<0, 0>>,
          skipped |-> FALSE, peeked |-> 0]

Next ==
  \/ NextStartOfInput \/ NextEndOfInput \/ NextBuffered \/ NextEndOfSource
  \/ NextParse \/ NextSkip \/ RetTop
  \/ LexToken \/ LexEnd
  \/ DoBegin \/ DoEnd \/ DoExpect \/ DoEndWithRecovery \/ DoRecoverySkip
  \/ DoEnterHexPatternMode \/ DoEnterHexJumpMode \/ DoCall \/ RetPlain
  \/ DoThen \/ DoIfNext \/ DoOpt \/ RetOpt \/ DoNot \/ RetNot
  \/ DoNOrMore \/ RetMandatory \/ RetLoop \/ DoCached \/ RetCached
  \/ DoBeginAlt \/ DoAlt \/ RetAlt \/ DoEndAlt

Spec == Init /\ [][Next]_vars

\* The caller keeps pulling, and a call of next runs to its return.
FairSpec == Spec /\ WF_vars(Next)


(***************************************************************************)
(* Properties.                                                             *)
(***************************************************************************)
\* Every event produced so far: those returned, then those buffered.
Events == emitted \o parser.output

IsToken(e) == e.t = "Token"
IsError(e) == e.t = "Error"
TokenEvents(seq) == SelectSeq(seq, IsToken)

\* The Token events of seq are the first n input tokens, in source order.
AreFirstTokens(seq, n) ==
  LET tk == TokenEvents(seq) IN
  /\ Len(tk) = n
  /\ n <= Len(toks)
  /\ \A i \in 1..Len(tk) :
       tk[i].s = span(i) /\ token_id(tk[i].k) = token_id(toks[i])

Exhausted == parser.state = "EndOfInput"

\* C1 as stated: once the iterator is exhausted the Token events it
\* returned are exactly the input tokens, each once and in source order.
C1_Lossless ==
  Exhausted => AreFirstTokens(emitted, Len(toks))

\* C1, amended: at every moment the Token events returned or buffered are
\* exactly the input tokens consumed so far, each once and in source order;
\* once the iterator is exhausted they are all the input tokens unless the
\* fuel ran out, in which case they are the tokens consumed until then.
C1_LosslessUnlessStarved ==
  /\ AreFirstTokens(Events, parser.pos)
  /\ (Exhausted /\ ~g.starved) =>
       (eof /\ AreFirstTokens(emitted, Len(toks)))

\* A parse that recovered from an error and was exhausted with every token
\* returned, trivia included.
C1_Witness ==
  /\ Exhausted
  /\ ~g.starved
  /\ Len(toks) > 8
  /\ \E i \in 1..Len(emitted) : IsError(emitted[i])
  /\ \E i \in 1..Len(emitted) : emitted[i].t = "End" /\ emitted[i].e
  /\ \E i \in 1..Len(emitted) :
       IsToken(emitted[i]) /\ is_trivia(emitted[i].k)

Unmatched == <<"unmatched End">>

RECURSIVE OpenKinds(_, _, _)
\* The kinds of the nodes still open after seq[i..], given those open before;
\* Unmatched if an End closes no Begin or a Begin of another kind.
OpenKinds(seq, i, open) ==
  IF i > Len(seq) THEN open
  ELSE IF seq[i].t = "Begin"
       THEN OpenKinds(seq, i + 1, Append(open, seq[i].k))
  ELSE IF seq[i].t = "End"
       THEN IF open = <<>> \/ open[Len(open)] # seq[i].k THEN Unmatched
            ELSE OpenKinds(seq, i + 1, SubSeq(open, 1, Len(open) - 1))
  ELSE OpenKinds(seq, i + 1, open)

\* C2: the events produced are well nested: no End without its Begin, every
\* node inside SOURCE_FILE, all the nodes of an item closed when next
\* returns, and every node closed once the iterator is exhausted.
C2_WellNested ==
  LET open == OpenKinds(Events, 1, <<>>) IN
  /\ open # Unmatched
  /\ Exhausted => open = <<>>
  /\ parser.state \notin {"StartOfInput", "EndOfInput"} =>
       (open # <<>> /\ open[1] = "SOURCE_FILE")
  /\ (pc = "idle" /\ parser.state \notin {"StartOfInput", "EndOfInput"}) =>
       open = <<"SOURCE_FILE">>

\* An exhausted parse in which a production failed and top_level_item
\* skipped tokens.
C2_Witness ==
  /\ Exhausted
  /\ \E i \in 1..Len(emitted) : emitted[i].t = "End" /\ emitted[i].e
  /\ \E i \in 1..Len(emitted) : emitted[i].t = "End" /\ emitted[i].k = "ERROR"
  /\ Len(emitted) > 8

\* Every pull that parses a top-level item consumes at least one token.
ItemConsumes == g.op = "item_done" => parser.pos > g.item_pos

\* C3 as stated, its last part: every pull that parses a top-level item
\* consumes at least one token.
C3_EveryItemConsumes == ItemConsumes

\* C3, amended: the iterator returns None after finitely many pulls, and
\* every pull that parses a top-level item consumes at least one token
\* unless the fuel ran out during it.
C3_Termination ==
  /\ <>(ret = "None")
  /\ [](g.op = "item_done" =>
          (parser.pos > g.item_pos \/ parser.state = "OutOfFuel"))

\* An item was parsed after tokens were skipped by top_level_item, in a
\* parse with several items.
C3_Witness ==
  /\ g.op = "item_done"
  /\ g.item_pos > 0
  /\ parser.pos > g.item_pos + 1
  /\ parser.state = "OK"

IsSourceFile(e) == e.k = "SOURCE_FILE"

\* C4: Begin{SOURCE_FILE} is the first event and End{SOURCE_FILE} the last,
\* each is returned once, and once End{SOURCE_FILE} was returned every
\* pull returns None and nothing changes any more.
C4_DriverProtocol ==
  /\ [](/\ emitted # <<>> => emitted[1] = SourceFileBegin
        /\ \A i \in 2..Len(emitted) :
             ~(emitted[i].t = "Begin" /\ IsSourceFile(emitted[i]))
        /\ \A i \in 1..Len(emitted) :
             (emitted[i].t = "End" /\ IsSourceFile(emitted[i])) =>
               (i = Len(emitted) /\ Exhausted)
        /\ Exhausted => (emitted # <<>> /\ emitted[Len(emitted)] = SourceFileEnd)
        /\ ret = "None" => Exhausted
        /\ parser.state = "StartOfInput" => emitted = <<>>)
  /\ [][Exhausted =>
          (emitted' = emitted /\ parser' = parser /\ ret' = "None")]_vars

\* None was returned after a parse that returned many events.
C4_Witness ==
  /\ ret = "None"
  /\ Len(emitted) > 10

\* C5 as stated: what handle_errors chooses does not depend on the
\* iteration order of its maps.
C5_Deterministic == ~g.amb

\* The next non-trivia token is in the recovery set, or there is none.
AtRecoveryPoint(set) ==
  LET i == peek_non_trivia(parser) IN
  /\ Lexed
  /\ i = 0 \/ contains(set, toks[i]) # ""

\* C6: whenever end_with_recovery(R) returns, the next non-trivia token is
\* a member of R or the input is exhausted.
C6_RecoveryPostcondition ==
  g.op \in {"end_with_recovery", "recovered"} => AtRecoveryPoint(g.rs)

\* end_with_recovery returned after skipping tokens, in front of trivia
\* followed by a token of the recovery set.
C6_Witness ==
  /\ g.op = "recovered"
  /\ peek_non_trivia(parser) # 0
  /\ peek_non_trivia(parser) # peek(parser)

\* C7 as stated: at most one Error event per start offset in the events
\* returned.
C7_OneErrorPerStart ==
  \A i, j \in 1..Len(emitted) :
    (i < j /\ IsError(emitted[i]) /\ IsError(emitted[j])) =>
      emitted[i].s[1] # emitted[j].s[1]

\* The parser stands where the bookmark b was taken, but for trivia
\* consumed since.
AtBookmark(b) ==
  /\ b[1] <= parser.pos
  /\ Len(parser.output) = b[2] + (parser.pos - b[1])
  /\ \A i \in (b[1] + 1)..parser.pos :
       /\ is_trivia(toks[i])
       /\ parser.output[b[2] + (i - b[1])] = TokenEvent(toks[i], span(i))

\* C8: an alternative is run only when no earlier one matched, and it
\* starts from the shared bookmark, every earlier alternative having been
\* rewound; an alternative that finishes in state OK is recorded as the
\* match and keeps the tokens it consumed and the events it produced.
C8_OrderedChoice ==
  /\ [](g.op = "alt_run" =>
          (AtBookmark(g.bm) /\ ~stack[Len(stack) - 1].am))
  /\ [][(Returning("alt") /\ parser.state = "OK") =>
          (/\ stack'[Len(stack')].am
           /\ parser'.pos = parser.pos
           /\ parser'.output = parser.output
           /\ parser'.state = "OK")]_vars
  /\ [][(Running("alt") /\ Top.am) =>
          (parser' = parser /\ Len(stack') = Len(stack))]_vars

\* An alternative starts at the bookmark after an earlier one had gone
\* past the first token and failed there.
C8_Witness ==
  /\ g.op = "alt_run"
  /\ parser.pos = g.bm[1]
  /\ parser.pos < Len(toks)
  /\ \E r \in parser.expected_token_errors :
       r.span[1] >= Start(parser.pos + 2)

\* C9: once the state is OutOfFuel no step changes it to anything but
\* EndOfInput.
C9_OutOfFuelSticky ==
  [][parser.state = "OutOfFuel" =>
       parser'.state \in {"OutOfFuel", "EndOfInput"}]_vars

\* The reset of the driver after an item left the state OutOfFuel.
C9_Witness ==
  /\ g.op = "item_done"
  /\ parser.state = "OutOfFuel"

\* C10: once the state is OutOfFuel and next has returned, every pull
\* returns a buffered event or, when none is left, End{SOURCE_FILE}; no
\* token is consumed any more, and after End{SOURCE_FILE} comes None.
C10_NoItemAfterOutOfFuel ==
  /\ [][(pc = "idle" /\ parser.state = "OutOfFuel") =>
          (/\ pc' = "idle"
           /\ parser'.pos = parser.pos
           /\ toks' = toks
           /\ IF parser.output # <<>>
              THEN /\ emitted' = Append(emitted, Head(parser.output))
                   /\ parser'.output = Tail(parser.output)
                   /\ parser'.state = "OutOfFuel"
              ELSE /\ emitted' = Append(emitted, SourceFileEnd)
                   /\ parser'.state = "EndOfInput")]_vars
  /\ [][(g.starved /\ Exhausted) =>
          (emitted' = emitted /\ ret' = "None")]_vars

\* The iterator was exhausted after the fuel ran out, with tokens left.
C10_Witness ==
  /\ g.starved
  /\ Exhausted
  /\ ret = "None"
  /\ parser.pos < Len(toks)

\* C11 as stated: from the moment the state is OutOfFuel no step consumes a
\* token from the token stream or appends a Token event to the output.
C11_NoTokenAfterOutOfFuel ==
  [][parser.state = "OutOfFuel" =>
       /\ parser'.pos <= parser.pos
       /\ Len(TokenEvents(parser'.output)) <= Len(TokenEvents(parser.output))]_vars

\* Positions in seq of the events of type t and kind k.
EventsOf(seq, t, k) == {i \in 1..Len(seq) : seq[i].t = t /\ seq[i].k = k}

\* C12 as stated: for two valid rules with a stray token between them, both
\* RULE_DECL nodes are closed without error marker, the stray token is a
\* leaf of an ERROR node that lies between them, and the only Error event
\* says "expecting import statement or rule definition".
C12_StrayTokenBetweenRules ==
  (Exhausted /\ ~g.starved /\ toks = StrayBetweenRules) =>
    LET begins == EventsOf(emitted, "Begin", "RULE_DECL")
        ends == EventsOf(emitted, "End", "RULE_DECL")
        stray == {i \in 1..Len(emitted) :
                    /\ IsToken(emitted[i])
                    /\ emitted[i].s = span(Len(ValidRule) + 2)}
    IN
    /\ Cardinality(begins) = 2
    /\ Cardinality(ends) = 2
    /\ \A i \in ends : ~emitted[i].e
    /\ \E b \in EventsOf(emitted, "Begin", "ERROR"),
          e \in EventsOf(emitted, "End", "ERROR"), t \in stray :
         /\ b < t /\ t < e
         /\ \E e1 \in ends, b2 \in begins : e1 < b /\ e < b2
    /\ Cardinality(EventsOf(emitted, "Error", "")) = 1
    /\ \A i \in EventsOf(emitted, "Error", "") :
         emitted[i].m = <<"expecting import statement or rule definition">>

\* The source is a rule whose condition block holds no expression: the
\* tokens up to the colon, then a closing brace, with or without trivia
\* around it.
EmptyCondition ==
  /\ Len(toks) > Len(ConditionHead)
  /\ SubSeq(toks, 1, Len(ConditionHead)) = ConditionHead
  /\ \E i \in (Len(ConditionHead) + 1)..Len(toks) :
       /\ toks[i] = "R_BRACE"
       /\ \A j \in (Len(ConditionHead) + 1)..Len(toks) :
            j # i => is_trivia(toks[j])

\* Positions in seq of the nodes closed with the error marker.
FailedEnds(seq) == {i \in 1..Len(seq) : seq[i].t = "End" /\ seq[i].e}

\* C13: for a rule with an empty condition exactly one Error event is
\* returned, CONDITION_BLK is closed with the error marker and every node
\* closed with it lies inside CONDITION_BLK, the closing brace is a leaf of
\* RULE_DECL after CONDITION_BLK, and RULE_DECL is closed without the marker.
C13_NoCascadeOnEmptyCondition ==
  (Exhausted /\ ~g.starved /\ EmptyCondition) =>
    LET cb == EventsOf(emitted, "Begin", "CONDITION_BLK")
        ce == EventsOf(emitted, "End", "CONDITION_BLK")
        re == EventsOf(emitted, "End", "RULE_DECL")
        brace == EventsOf(emitted, "Token", "R_BRACE")
    IN
    /\ Cardinality(EventsOf(emitted, "Error", "")) = 1
    /\ Cardinality(cb) = 1 /\ Cardinality(ce) = 1 /\ Cardinality(re) = 1
    /\ Cardinality(brace) = 1
    /\ \A i \in ce : emitted[i].e
    /\ \A i \in re : ~emitted[i].e
    /\ \A i \in FailedEnds(emitted) :
         \E b \in cb, e \in ce : b < i /\ i <= e
    /\ \A t \in brace : \E e \in ce, r \in re : e < t /\ t < r

\* A rule with an empty condition and trivia around the closing brace was
\* parsed to the end.
C13_Witness ==
  /\ Exhausted
  /\ ~g.starved
  /\ EmptyCondition
  /\ Len(toks) > Len(ConditionHead) + 2
  /\ Cardinality(FailedEnds(emitted)) >= 3

\* The source is a rule whose condition is cut off by an unclosed comment
\* or an unclosed string that runs to the end of the source.
UnclosedAtEnd ==
  /\ eof
  /\ Len(toks) > Len(ConditionHead)
  /\ SubSeq(toks, 1, Len(ConditionHead)) = ConditionHead
  /\ toks[Len(toks)] \in {"UNKNOWN_COMMENT", "UNKNOWN_STRING"}
  /\ \A j \in (Len(ConditionHead) + 1)..(Len(toks) - 1) : is_trivia(toks[j])

\* C14 as stated: for a rule cut off by an unclosed comment or string
\* exactly one Error event is returned, at the span of the unclosed token,
\* saying "unclosed comment" or "unclosed literal string".
C14_OneErrorForUnclosedLiteral ==
  (Exhausted /\ ~g.starved /\ UnclosedAtEnd) =>
    LET errs == EventsOf(emitted, "Error", "") IN
    /\ Cardinality(errs) = 1
    /\ \A i \in errs :
         /\ emitted[i].s = span(Len(toks))
         /\ emitted[i].m =
              IF toks[Len(toks)] = "UNKNOWN_COMMENT"
              THEN <<"unclosed comment">> ELSE <<"unclosed literal string">>

\* rule_decl is opt(rule_mods) followed by expect(RULE_KW) at opt_depth 0,
\* and rule_mods ends with opt(expect(GLOBAL_KW)) once 'private' matched:
\* the production "a? b" with a = GLOBAL_KW and b = RULE_KW.  The case of
\* C15: expect(RULE_KW) has just failed on a token c that is neither.
AfterOptThenExpectFailed ==
  /\ g.op = "expect"
  /\ g.rs = <<"RULE_KW">>
  /\ parser.state = "Failure"
  /\ parser.pos > 0
  /\ toks[parser.pos] = "PRIVATE_KW"
  /\ peek_non_trivia(parser) # 0
  /\ toks[peek_non_trivia(parser)] # "GLOBAL_KW"

\* C15: when expect(b) has failed on c after opt(expect(a)) failed on c and
\* was rewound, exactly one error is pending, at the span of c, and it lists
\* the description of a, then that of b: "expecting a or b, found c".
C15_DiagnosticsSurviveSpeculation ==
  AfterOptThenExpectFailed =>
    LET c == peek_non_trivia(parser) IN
    parser.pending_errors =
      << [span |-> span(c),
          msg |-> <<"expecting ", "GLOBAL_KW", " or ", "RULE_KW", ", found '",
                    Lexeme(toks[c]), "'">>] >>

\* expect(RULE_KW) failed on a token that follows 'private' and trivia.
C15_Witness ==
  /\ AfterOptThenExpectFailed
  /\ peek_non_trivia(parser) # peek(parser)
  /\ parser.opt_depth = 0

\* The messages of the errors reported so far that handle_errors built from
\* a list of expected descriptions.
ExpectingMessages ==
  {m \in {Events[i].m : i \in EventsOf(Events, "Error", "")}
         \cup {parser.pending_errors[i].msg :
                 i \in 1..Len(parser.pending_errors)} :
     Len(m) >= 2 /\ m[1] = "expecting "}

\* What follows the list of descriptions in a message, if anything.
FoundPieces == {", found end of file", ", found '"}

\* Position in m of the last description of the list.
ListEnd(m) ==
  LET at == {i \in 1..Len(m) : m[i] \in FoundPieces} IN
  IF at = {} THEN Len(m) ELSE (CHOOSE i \in at : \A j \in at : i <= j) - 1

\* Number of descriptions in m, and what is written between them.
NumDescs(m) == ListEnd(m) \div 2
Separators(m) == [k \in 1..(NumDescs(m) - 1) |-> m[2 * k + 1]]

\* The list of m is well formed, with `last` before its last description
\* and a comma before each of the others.
ListedWith(m, last) ==
  LET n == NumDescs(m) IN
  /\ ListEnd(m) = 2 * n
  /\ \A k \in 1..n : m[2 * k] \notin ({", ", " or ", ", or "} \cup FoundPieces)
  /\ \A k \in 1..(n - 1) :
       Separators(m)[k] = IF k = n - 1 THEN last ELSE ", "
  /\ \/ Len(m) = 2 * n
     \/ Len(m) = 2 * n + 1 /\ m[Len(m)] = ", found end of file"
     \/ Len(m) = 2 * n + 3 /\ m[2 * n + 1] = ", found '" /\ m[Len(m)] = "'"

\* C16 as stated: three or more descriptions are listed "X, Y, or Z", with
\* a comma before the final "or"; one description is listed alone.
C16_CommaBeforeOr ==
  \A m \in ExpectingMessages :
    /\ NumDescs(m) >= 3 => ListedWith(m, ", or ")
    /\ NumDescs(m) = 1 => ListedWith(m, " or ")

\* C16, amended: three or more descriptions are listed "X, Y or Z", comma
\* joined but for the last, which follows " or " without a comma; one
\* description is listed alone.
C16_OrWithoutComma ==
  \A m \in ExpectingMessages : ListedWith(m, " or ")

\* An Error event was returned whose message lists three descriptions or
\* more and the token found.
C16_Witness ==
  \E i \in EventsOf(emitted, "Error", "") :
    /\ emitted[i].m[1] = "expecting "
    /\ NumDescs(emitted[i].m) >= 3
    /\ Len(emitted[i].m) = 2 * NumDescs(emitted[i].m) + 3

\* if_next(set, |p| p.expect(set)): every outcome.
if_next_expect(p, set) ==
  LET r == if_next(p, set) IN
  IF r.run THEN expect_d(r.p, set, "") ELSE {r.p}

\* opt(|p| p.expect(set)): every outcome.
opt_expect(p, set) ==
  IF Failing(p) THEN {p}
  ELSE {opt_exit(q, Bookmark(p)) : q \in expect_d(opt_enter(p), set, "")}

\* What C17 compares: the state, the position in the token stream and the
\* events in the output buffer.
Observed(ps) == {<<q.state, q.pos, q.output>> : q \in ps}

\* The token sets the two are compared on.
TestSets ==
  {<<"IDENT">>, <<"RULE_KW">>, <<"L_BRACE">>, <<"R_BRACE">>,
   <<"TRUE_KW", "FALSE_KW">>, <<"IMPORT_KW", "PRIVATE_KW">>}

\* The next non-trivia token is in the set.
NextIn(set) ==
  /\ peek_non_trivia(parser) # 0
  /\ contains(set, toks[peek_non_trivia(parser)]) # ""

NonTrivia == SelectSeq(toks, LAMBDA t : ~is_trivia(t))

\* s is the non-trivia tokens of 'rule IDENT { condition: true|false }'.
IsRuleCore(s) ==
  /\ Len(s) = 7
  /\ SubSeq(s, 1, 5) = <<"RULE_KW", "IDENT", "L_BRACE", "CONDITION_KW", "COLON">>
  /\ s[6] \in {"TRUE_KW", "FALSE_KW"}
  /\ s[7] = "R_BRACE"

\* The source is one or two such rules, with any trivia between the tokens.
ValidSource ==
  /\ eof
  /\ Len(NonTrivia) \in {7, 14}
  /\ IsRuleCore(SubSeq(NonTrivia, 1, 7))
  /\ Len(NonTrivia) = 14 => IsRuleCore(SubSeq(NonTrivia, 8, 14))

\* C18: for a source made of valid rules no Error event is returned and no
\* node is closed with the error marker.
C18_ValidInputNoErrors ==
  (Exhausted /\ ~g.starved /\ ValidSource) =>
    /\ EventsOf(emitted, "Error", "") = {}
    /\ FailedEnds(emitted) = {}

\* Two valid rules with trivia between their tokens were parsed to the end,
\* each into its RULE_DECL node.
C18_Witness ==
  /\ Exhausted
  /\ ~g.starved
  /\ ValidSource
  /\ Len(NonTrivia) = 14
  /\ Len(toks) > 16
  /\ Cardinality(EventsOf(emitted, "End", "RULE_DECL")) = 2

\* expect is about to run in state OK, outside any negation, and the next
\* non-trivia token is not in its set, or no token is left.
ExpectWillFail ==
  /\ Running("expect")
  /\ parser.state = "OK"
  /\ parser.not_depth = 0
  /\ \/ peek_non_trivia(parser) = 0
     \/ contains(Cur.set, toks[peek_non_trivia(parser)]) = ""

\* C19: a failed expect consumes no token, not even the trivia in front of
\* the token it looked at, appends no event to the output and sets the
\* state to Failure.
C19_FailedExpectConsumesNothing ==
  [][ExpectWillFail =>
       /\ parser'.pos = parser.pos
       /\ parser'.output = parser.output
       /\ parser'.state = "Failure"]_vars

\* expect(IDENT) of rule_decl has failed right after 'rule' was consumed, on
\* a token that follows trivia.
C19_Witness ==
  /\ g.op = "expect"
  /\ g.rs = <<"IDENT">>
  /\ parser.state = "Failure"
  /\ parser.not_depth = 0
  /\ parser.pos > 0
  /\ toks[parser.pos] = "RULE_KW"
  /\ peek_non_trivia(parser) # 0
  /\ peek_non_trivia(parser) # peek(parser)

\* expect is about to run and the next non-trivia token is in its set.
ExpectWillMatch ==
  /\ Running("expect")
  /\ ~Failing(parser)
  /\ NextIn(Cur.set)

\* The errors pending before the step follow, in order, the Token event of
\* the token the step matched, and nothing is pending after it.
FlushedAfterToken ==
  LET i == peek_non_trivia(parser)
      n == Len(parser.pending_errors)
      out == parser'.output
      at == {t \in (Len(parser.output) + 1)..Len(out) :
               IsToken(out[t]) /\ out[t].s = span(i)}
  IN
  /\ parser'.pending_errors = <<>>
  /\ parser'.expected_token_errors = {}
  /\ parser'.unexpected_token_errors = {}
  /\ \E t \in at :
       /\ Len(out) >= t + n
       /\ \A k \in 1..n :
            out[t + k] = ErrorEvent(parser.pending_errors[k].msg,
                                    parser.pending_errors[k].span)

\* The step leaves the pending errors and the expected-token map untouched.
QueueAndMapUntouched ==
  /\ parser'.pending_errors = parser.pending_errors
  /\ parser'.expected_token_errors = parser.expected_token_errors

\* C20 as stated: a matching expect at opt_depth 0 flushes the pending
\* errors after the token and leaves queue, map and set empty; at
\* opt_depth > 0 it leaves all three untouched.
C20_FlushOnCommit ==
  [][ExpectWillMatch =>
       IF parser.opt_depth = 0 THEN FlushedAfterToken
       ELSE /\ QueueAndMapUntouched
            /\ parser'.unexpected_token_errors = parser.unexpected_token_errors]_vars

\* C20, amended: as stated, but at opt_depth > 0 the unexpected-token set is
\* left untouched only outside a negation; inside one (not_depth > 0) the
\* span of the matched token is added to it.
C20_FlushOnCommitOutsideNot ==
  [][ExpectWillMatch =>
       IF parser.opt_depth = 0 THEN FlushedAfterToken
       ELSE /\ QueueAndMapUntouched
            /\ parser'.unexpected_token_errors =
                 IF parser.not_depth = 0 THEN parser.unexpected_token_errors
                 ELSE parser.unexpected_token_errors
                        \cup {span(peek_non_trivia(parser))}]_vars

\* expect has matched a token at opt_depth 0 and flushed an error behind it.
C20_Witness ==
  /\ g.op = "expect"
  /\ parser.state = "OK"
  /\ parser.opt_depth = 0
  /\ parser.pending_errors = <<>>
  /\ Len(parser.output) >= 2
  /\ IsError(parser.output[Len(parser.output)])
  /\ IsToken(parser.output[Len(parser.output) - 1])
  /\ contains(g.rs, parser.output[Len(parser.output) - 1].k) # ""

\* expect is about to run inside a negation and the next non-trivia token is
\* in its set.
ExpectWillMatchInNot == ExpectWillMatch /\ parser.not_depth > 0

\* C21 as stated: such an expect records the span of the token in the
\* unexpected-token set and does nothing else: position, output buffer and
\* pending-error queue are as before the call.
C21_ExpectInNotOnlyRecords ==
  [][ExpectWillMatchInNot =>
       /\ parser'.unexpected_token_errors =
            parser.unexpected_token_errors \cup {span(peek_non_trivia(parser))}
       /\ parser'.pos = parser.pos
       /\ parser'.output = parser.output
       /\ parser'.pending_errors = parser.pending_errors]_vars

\* C21, amended: such an expect records the span of the token in the
\* unexpected-token set, resolves errors (nothing at opt_depth > 0) and then
\* consumes the token as any matching expect does: the trivia in front of it
\* and the token are appended to the output, the position is that of the
\* token and the state stays OK.  At opt_depth > 0 nothing else changes.
C21_ExpectInNotRecordsAndConsumes ==
  [][ExpectWillMatchInNot =>
       LET i == peek_non_trivia(parser)
           consumed == BumpTrivia(parser).output
                         \o <<TokenEvent(contains(Cur.set, toks[i]), span(i))>>
       IN
       /\ parser'.pos = i
       /\ parser'.state = "OK"
       /\ Len(parser'.output) >= Len(consumed)
       /\ SubSeq(parser'.output, 1, Len(consumed)) = consumed
       /\ parser.opt_depth > 0 =>
            /\ parser'.output = consumed
            /\ parser'.pending_errors = parser.pending_errors
            /\ parser'.expected_token_errors = parser.expected_token_errors
            /\ parser'.unexpected_token_errors =
                 parser.unexpected_token_errors \cup {span(i)}]_vars

\* An expect inside a negation has matched and consumed '(': its span is in
\* the unexpected-token set and its Token event is the last of the output.
C21_Witness ==
  /\ g.op = "expect"
  /\ parser.not_depth > 0
  /\ parser.state = "OK"
  /\ parser.pos > 0
  /\ span(parser.pos) \in parser.unexpected_token_errors
  /\ parser.output # <<>>
  /\ parser.output[Len(parser.output)] = TokenEvent(toks[parser.pos], span(parser.pos))


\* C22: commit monotonicity.  Once expect has consumed a token at
\* opt_depth 0, no later step moves the position to the left of that token,
\* and the events produced up to then, the Error events that expect flushed
\* included, stay in the event sequence unchanged.
C22_CommitMonotonic ==
  [][/\ parser'.pos >= g.commit[1]
     /\ Len(Events') >= g.commit[2]
     /\ SubSeq(Events', 1, g.commit[2]) = SubSeq(Events, 1, g.commit[2])]_vars

\* An alternative that failed has just been rewound, after a commit that
\* flushed an Error event.
C22_Witness ==
  /\ g.op = "alt_return"
  /\ ~Top.am
  /\ parser.state = "OK"
  /\ AtBookmark(g.bm)
  /\ g.commit[1] > 0
  /\ parser.pos >= g.commit[1]
  /\ \E i \in 1..g.commit[2] : IsError(Events[i])


\* The frames of the combinator ctl that the step leaves on the stack.
Live(ctl) ==
  {k \in 1..Len(stack) :
     stack[k].ctl = ctl /\ (k < Len(stack) \/ ~Returning(ctl))}

\* The step keeps the position at or after bookmark b and leaves the events
\* produced before b was taken as they are.
KeepsBefore(b) ==
  /\ parser'.pos >= b[1]
  /\ Len(parser'.output) >= b[2]
  /\ SubSeq(parser'.output, 1, b[2]) = SubSeq(parser.output, 1, b[2])

\* The position and the events of bookmark b, the events before b having
\* been kept since it was taken.
Rewound(b) ==
  /\ parser'.pos = b[1]
  /\ parser'.output = SubSeq(parser.output, 1, b[2])

Untouched ==
  /\ parser'.pos = parser.pos
  /\ parser'.output = parser.output

\* C23: opt called in state OK does not return in state Failure.  When its
\* production failed the state is OK again and position and output are those
\* of the call; when it succeeded position and output are kept.  While the
\* production runs, the events produced before the call stay as they are.
C23_OptNeverFails ==
  /\ [][\A k \in Live("opt") : KeepsBefore(stack[k].bm)]_vars
  /\ [][Returning("opt") =>
          /\ parser'.state # "Failure"
          /\ parser.state = "Failure" =>
               (parser'.state = "OK" /\ Rewound(Top.bm))
          /\ parser.state = "OK" => (parser'.state = "OK" /\ Untouched)]_vars

\* opt has returned at its bookmark in state OK after an expect of its
\* production failed beyond the first token.
C23_Witness ==
  /\ g.op = "opt_return"
  /\ parser.state = "OK"
  /\ parser.pos = g.bm[1]
  /\ Len(parser.output) = g.bm[2]
  /\ parser.pos < Len(toks)
  /\ \E r \in parser.expected_token_errors :
       r.span[1] >= Start(parser.pos + 2)


\* C24: not called in state OK returns with the position and the output of
\* the call, whether its production matched or not, and with the outcome
\* inverted: OK gives Failure, Failure gives OK, OutOfFuel stays.  While the
\* production runs, the events produced before the call stay as they are.
C24_NotIsPurePredicate ==
  /\ [][\A k \in Live("not") : KeepsBefore(stack[k].bm)]_vars
  /\ [][Returning("not") =>
          /\ Rewound(Top.bm)
          /\ parser.state = "OK" => parser'.state = "Failure"
          /\ parser.state = "Failure" => parser'.state = "OK"
          /\ parser.state = "OutOfFuel" => parser'.state = "OutOfFuel"]_vars

\* not has returned in state Failure at its bookmark: its production had
\* matched and consumed the token that follows.
C24_Witness ==
  /\ g.op = "not_return"
  /\ parser.state = "Failure"
  /\ parser.pos = g.bm[1]
  /\ Len(parser.output) = g.bm[2]
  /\ span(peek_non_trivia(parser)) \in parser.unexpected_token_errors


\* C25 as stated: when one of the first n runs of n_or_more's production
\* does not succeed, n_or_more returns in state Failure with position and
\* output as that run left them; otherwise a run that succeeds is kept and
\* the first run that does not ends n_or_more in state OK with the position
\* and the output of the moment that run started.
C25_NOrMore ==
  /\ [][\A k \in Live("loop") : KeepsBefore(stack[k].bm)]_vars
  /\ [][(Returning("mandatory") /\ parser.state # "OK") =>
          (parser'.state = "Failure" /\ Untouched
           /\ Len(stack') = Len(stack) - 1)]_vars
  /\ [][(Returning("loop") /\ parser.state # "OK") =>
          (parser'.state = "OK" /\ Rewound(Top.bm)
           /\ Len(stack') = Len(stack) - 1)]_vars
  /\ [][(Returning("loop") /\ parser.state = "OK") =>
          (parser'.state = "OK" /\ KeepsBefore(Bookmark(parser))
           /\ Len(stack') = Len(stack))]_vars


\* C25, amended: as stated when the run that does not succeed ends in state
\* Failure; when it ends in state OutOfFuel, n_or_more returns in state
\* OutOfFuel, without rewinding if the run was one of the first n and
\* rewound to the start of that run otherwise.
C25_NOrMoreUnlessStarved ==
  /\ [][\A k \in Live("loop") : KeepsBefore(stack[k].bm)]_vars
  /\ [][(Returning("mandatory") /\ parser.state # "OK") =>
          (parser'.state = parser.state /\ Untouched
           /\ Len(stack') = Len(stack) - 1)]_vars
  /\ [][(Returning("loop") /\ parser.state # "OK") =>
          (/\ parser'.state =
                (IF parser.state = "Failure" THEN "OK" ELSE "OutOfFuel")
           /\ Rewound(Top.bm)
           /\ Len(stack') = Len(stack) - 1)]_vars
  /\ [][(Returning("loop") /\ parser.state = "OK") =>
          (parser'.state = "OK" /\ KeepsBefore(Bookmark(parser))
           /\ Len(stack') = Len(stack))]_vars

\* n_or_more has returned in state OK at the bookmark of its last turn,
\* after an expect of that turn failed beyond the first token.
C25_Witness ==
  /\ g.op = "loop_return"
  /\ parser.state = "OK"
  /\ parser.pos = g.bm[1]
  /\ Len(parser.output) = g.bm[2]
  /\ parser.pos < Len(toks)
  /\ \E r \in parser.expected_token_errors :
       r.span[1] >= Start(parser.pos + 2)


\* The frames with a choice begun and not yet ended.
OpenChoices ==
  {k \in 1..Len(stack) :
     /\ stack[k].pc <= Len(Code(stack[k]))
     /\ Code(stack[k])[stack[k].pc].op \in {"alt", "end_alt"}
     /\ ~(k = Len(stack) /\ Running("end_alt"))}

\* The diagnostics after the step are those handle_errors leaves.
ErrorsResolved ==
  \E q \in handle_errors(parser) :
    /\ parser'.pending_errors = q.pending_errors
    /\ parser'.expected_token_errors = q.expected_token_errors
    /\ parser'.unexpected_token_errors = q.unexpected_token_errors

ErrorsUntouched ==
  /\ parser'.pending_errors = parser.pending_errors
  /\ parser'.expected_token_errors = parser.expected_token_errors
  /\ parser'.unexpected_token_errors = parser.unexpected_token_errors

\* end_alt is about to run, the choice was begun in state OK and no
\* alternative matched: every alternative failed, or the fuel ran out in
\* the last one.
NoAlternativeMatched ==
  /\ Running("end_alt")
  /\ ~Top.am
  /\ \/ parser.state = "OK"
     \/ parser.state = "OutOfFuel" /\ g.op = "alt_return"

\* C26 as stated: a choice begun in state OK none of whose alternatives
\* matched ends in state Failure with the position and the output of
\* begin_alt, and end_alt resolves the recorded errors; a choice one of
\* whose alternatives matched ends in state OK and resolves no error.
C26_FailedChoice ==
  /\ [][\A k \in OpenChoices : KeepsBefore(stack[k].abm)]_vars
  /\ [][NoAlternativeMatched =>
          (parser'.state = "Failure" /\ Rewound(Top.abm)
           /\ ErrorsResolved)]_vars
  /\ [][(Running("end_alt") /\ Top.am) =>
          (parser'.state = "OK" /\ Untouched /\ ErrorsUntouched)]_vars

\* C26, amended: as stated when every alternative failed; when the fuel
\* ran out in an alternative, end_alt leaves the state OutOfFuel and the
\* position and output as that alternative left them, and resolves the
\* recorded errors.
C26_FailedChoiceUnlessStarved ==
  /\ [][\A k \in OpenChoices : KeepsBefore(stack[k].abm)]_vars
  /\ [][(NoAlternativeMatched /\ parser.state = "OK") =>
          (parser'.state = "Failure" /\ Rewound(Top.abm) /\ Untouched
           /\ ErrorsResolved)]_vars
  /\ [][(NoAlternativeMatched /\ parser.state = "OutOfFuel") =>
          (parser'.state = "OutOfFuel" /\ Untouched /\ ErrorsResolved)]_vars
  /\ [][(Running("end_alt") /\ Top.am) =>
          (parser'.state = "OK" /\ Untouched /\ ErrorsUntouched)]_vars

\* end_alt has failed a choice at its bookmark outside every optional
\* production, and left the error it resolved in the queue.
C26_Witness ==
  /\ g.op = "end_alt"
  /\ parser.state = "Failure"
  /\ parser.opt_depth = 0
  /\ parser.pos = g.bm[1]
  /\ Len(parser.output) = g.bm[2]
  /\ parser.pending_errors # <<>>
  /\ parser.expected_token_errors = {}


\* C27 as stated: cached inserts an entry only for a production that was
\* called in state OK and failed; a call of cached in state Failure inserts
\* nothing.
C27_CacheSound ==
  [][(Returning("cached") /\ parser'.cache # parser.cache) =>
       Top.was = "OK"]_vars


\* C28: whenever no top-level item is being parsed the failure cache is
\* empty: an item starts with an empty cache and its entries are gone when
\* it is finished.
C28_CacheScope ==
  pc = "idle" => parser.cache = {}

\* An item has been finished, with fuel left, in which no alternative of a
\* boolean term matched: its cached productions had failed and been entered
\* in the cache.
C28_Witness ==
  /\ g.op = "item_done"
  /\ ~g.starved
  /\ parser.cache = {}
  /\ \E i \in 1..Len(parser.output) :
       parser.output[i] = EndEvent("BOOLEAN_TERM", TRUE)


IsPrefix(a, b) == Len(a) <= Len(b) /\ SubSeq(b, 1, Len(a)) = a

\* The diagnostics of parser p after the events returned so far were out:
\* the Error events returned or buffered, then the errors still pending.
DiagnosticsOf(out, p) ==
  PushErrors(SelectSeq(out \o p.output, IsError), p.pending_errors)

\* C29: no diagnostic is lost.  No step removes an Error event from the
\* event sequence or an error from the pending queue other than by turning
\* it into an Error event, and when the iterator is exhausted nothing is
\* pending or buffered and End{SOURCE_FILE} is the last event returned, so
\* every error handle_errors queued is an Error event before it.
C29_NoDiagnosticLost ==
  /\ [][IsPrefix(DiagnosticsOf(emitted, parser),
                 DiagnosticsOf(emitted', parser'))]_vars
  /\ [](Exhausted =>
          /\ parser.pending_errors = <<>>
          /\ parser.output = <<>>
          /\ EventsOf(emitted, "End", "SOURCE_FILE") = {Len(emitted)})

\* The iterator is exhausted after the fuel ran out and has returned two
\* Error events or more.
C29_Witness ==
  /\ Exhausted
  /\ g.starved
  /\ Cardinality(EventsOf(emitted, "Error", "")) >= 2


\* C30 as stated: when end_with_recovery returns after skipping, nothing is
\* pending and the output holds an Error event.
C30_RecoveryFlushes ==
  g.op = "recovered" =>
    /\ parser.pending_errors = <<>>
    /\ EventsOf(parser.output, "Error", "") # {}

\* end_with_recovery is about to find a token outside its recovery set.
RecoveryWillSkip ==
  /\ Running("end_with_recovery")
  /\ Top.ph = 0
  /\ peek_non_trivia(parser) # 0
  /\ contains(Cur.set, toks[peek_non_trivia(parser)]) = ""

\* C30, amended: when end_with_recovery finds an offending token it consumes
\* it; errors already pending are flushed behind it and nothing is pending
\* afterwards; when none is pending, the error naming the recovery set is
\* resolved into the pending queue and no Error event is produced.  The
\* skip loop that follows changes neither the queue nor the Error events.
C30_RecoveryFlushesOnlyPending ==
  /\ [][RecoveryWillSkip =>
          LET consumed == bump(trivia(parser)).output IN
          IF parser.pending_errors # <<>>
          THEN /\ parser'.pending_errors = <<>>
               /\ parser'.output = PushErrors(consumed, parser.pending_errors)
          ELSE /\ parser'.output = consumed
               /\ Len(parser'.pending_errors) =
                    (IF parser.opt_depth = 0 THEN 1 ELSE 0)]_vars
  /\ [][(Running("end_with_recovery") /\ Top.ph = 1) =>
          /\ parser'.pending_errors = parser.pending_errors
          /\ SelectSeq(parser'.output, IsError) =
               SelectSeq(parser.output, IsError)]_vars

\* end_with_recovery has returned after skipping, with the error it
\* resolved still pending and no Error event in the output.
C30_Witness ==
  /\ g.op = "recovered"
  /\ Len(parser.pending_errors) = 1
  /\ EventsOf(parser.output, "Error", "") = {}


\* The events of the top-level item next has just parsed: the one it
\* returned, then those still buffered.
ItemEvents == <<emitted[Len(emitted)]>> \o parser.output

\* The skip loop of end_with_recovery is about to stop.
RecoveryWillEnd ==
  /\ Running("end_with_recovery")
  /\ Top.ph = 1
  /\ recovery_skip(parser, Cur.set).done

\* C31: no silent skip.  An item in which end_with_recovery or
\* top_level_item skipped a token has an Error event; the node that
\* end_with_recovery skipped tokens into is closed with an error marker, and
\* the node top_level_item skips tokens into is of kind ERROR.
C31_NoSilentSkip ==
  /\ []((g.op = "item_done" /\ g.skipped) =>
          EventsOf(ItemEvents, "Error", "") # {})
  /\ [][RecoveryWillEnd =>
          parser'.output =
            Append(parser.output, EndEvent(OpenKind(parser.output), TRUE))]_vars
  /\ [](pc = "skip" => OpenKind(parser.output) = "ERROR")

\* An item has been finished in which end_with_recovery skipped tokens
\* with no error pending before.
C31_Witness ==
  /\ g.op = "item_done"
  /\ g.skipped
  /\ ~g.starved
  /\ Cardinality(EventsOf(ItemEvents, "Error", "")) = 1
  /\ EventsOf(ItemEvents, "Begin", "ERROR") = {}


\* The step removes no entry and no description from the expected-token map
\* and no span from the unexpected-token set.
EvidenceKept ==
  /\ \A r \in parser.expected_token_errors :
       \E r2 \in parser'.expected_token_errors :
         /\ r2.span = r.span
         /\ \A k \in 1..Len(r.exp) : InSeq(r.exp[k], r2.exp)
  /\ parser.unexpected_token_errors \subseteq parser'.unexpected_token_errors

\* C32: while opt_depth > 0 no step adds to the pending-error queue or
\* removes evidence from the expected-token map or the unexpected-token
\* set; an expect that fails there records its set and does nothing else
\* to the diagnostics.
C32_SuppressedInSpeculation ==
  /\ [][parser.opt_depth > 0 =>
          (parser'.pending_errors = parser.pending_errors /\ EvidenceKept)]_vars
  /\ [][(ExpectWillFail /\ parser.opt_depth > 0) =>
          LET i == peek_non_trivia(parser) IN
          \E r \in parser'.expected_token_errors :
            /\ r.span = (IF i = 0 THEN eof_span ELSE span(i))
            /\ IF Cur.desc # "" THEN InSeq(Cur.desc, r.exp)
               ELSE \A k \in 1..Len(Cur.set) : InSeq(Cur.set[k], r.exp)]_vars

\* An expect has failed inside speculation and left its evidence in the
\* map, with nothing pending.
C32_Witness ==
  /\ g.op = "expect"
  /\ parser.state = "Failure"
  /\ parser.opt_depth > 0
  /\ parser.pending_errors = <<>>
  /\ \E r \in parser.expected_token_errors :
       r.span = span(peek_non_trivia(parser))


\* The largest start among spans.
MaxStart(spans) ==
  CHOOSE n \in {s[1] : s \in spans} : \A s \in spans : s[1] <= n

ExpectedSpans(p) == {r.span : r \in p.expected_token_errors}

\* The unexpected-token evidence of p lies strictly to the right of its
\* expected-token evidence, or is all there is.
UnexpectedWins(p) ==
  /\ p.unexpected_token_errors # {}
  /\ \/ p.expected_token_errors = {}
     \/ MaxStart(p.unexpected_token_errors) > MaxStart(ExpectedSpans(p))

\* The spans resolution may select in p.
Selected(p) ==
  IF UnexpectedWins(p) THEN MaxByStart(p.unexpected_token_errors)
  ELSE MaxByStart(ExpectedSpans(p))

IsUnexpectedMsg(m) == m[1] \in {"unexpected end of file", "unexpected '"}

\* q has queued the diagnostic for span s of p, unless p held one for s.
Queued(p, q, s) ==
  IF \E i \in 1..Len(p.pending_errors) : p.pending_errors[i].span = s
  THEN q.pending_errors = p.pending_errors
  ELSE /\ Len(q.pending_errors) = Len(p.pending_errors) + 1
       /\ IsPrefix(p.pending_errors, q.pending_errors)
       /\ q.pending_errors[Len(q.pending_errors)].span = s
       /\ IsUnexpectedMsg(q.pending_errors[Len(q.pending_errors)].msg)
            = UnexpectedWins(p)

NoEvidence(p) ==
  p.expected_token_errors = {} /\ p.unexpected_token_errors = {}

\* C33 as stated: at opt_depth 0 handle_errors selects the rightmost
\* evidence, the unexpected-token span only when it starts strictly further
\* right, queues it unless the queue holds an error of that span, and
\* removes the selected evidence and nothing else from the maps.
C33_RightmostEvidence ==
  parser.opt_depth = 0 =>
    \A q \in handle_errors(parser) :
      IF NoEvidence(parser) THEN q = parser
      ELSE \E s \in Selected(parser) :
             /\ Queued(parser, q, s)
             /\ IF UnexpectedWins(parser)
                THEN /\ q.unexpected_token_errors =
                          parser.unexpected_token_errors \ {s}
                     /\ q.expected_token_errors = parser.expected_token_errors
                ELSE /\ q.expected_token_errors =
                          {r \in parser.expected_token_errors : r.span # s}
                     /\ q.unexpected_token_errors =
                          parser.unexpected_token_errors

\* C33, amended: as stated, except that handle_errors empties both the
\* expected-token map and the unexpected-token set, and that among several
\* entries with the largest start it selects one of them.
C33_RightmostEvidenceDrainsAll ==
  parser.opt_depth = 0 =>
    \A q \in handle_errors(parser) :
      IF NoEvidence(parser) THEN q = parser
      ELSE /\ NoEvidence(q)
           /\ \E s \in Selected(parser) : Queued(parser, q, s)

\* end_alt has resolved, at opt_depth 0, evidence in which an
\* unexpected-token span lay furthest right.
C33_Witness ==
  /\ g.op = "end_alt"
  /\ parser.opt_depth = 0
  /\ parser.state = "Failure"
  /\ NoEvidence(parser)
  /\ parser.pending_errors # <<>>
  /\ IsUnexpectedMsg(parser.pending_errors[Len(parser.pending_errors)].msg)


(***************************************************************************)
(* Flush order.                                                            *)
(***************************************************************************)
ErrorsIn(seq) == SelectSeq(seq, IsError)

\* A step that moves at least two pending errors into the output.
FlushesSeveral ==
  /\ Len(parser.pending_errors) >= 2
  /\ parser'.pending_errors = <<>>

\* The Error events that the step appended.
Flushed ==
  LET old == ErrorsIn(Events)
      new == ErrorsIn(Events')
  IN SubSeq(new, Len(old) + 1, Len(new))

JustConsumed(rule, bracket) ==
  /\ g.op = "expect"
  /\ parser.state = "OK"
  /\ Top.rule = rule
  /\ parser.pos > 0
  /\ toks[parser.pos] = bracket
  /\ g.peeked <= parser.pos

\* C35: the tokenizer is switched to hex-pattern mode only immediately after
\* expect has consumed the `{` of HEX_PATTERN in a non-failing state, and to
\* hex-jump mode only immediately after expect has consumed the `[` of
\* HEX_JUMP; at the switch the token stream has produced no token beyond the
\* consumed bracket; a call in state Failure or OutOfFuel switches nothing.
C35_ModeSwitches ==
  [][/\ parser'.mode # parser.mode =>
          \/ Running("enter_hex_pattern_mode") /\ parser'.mode = "hex_pattern"
          \/ Running("enter_hex_jump_mode") /\ parser'.mode = "hex_jump"
     /\ (Running("enter_hex_pattern_mode") /\ ~Failing(parser)) =>
          JustConsumed("hex_pattern", "L_BRACE")
     /\ (Running("enter_hex_jump_mode") /\ ~Failing(parser)) =>
          JustConsumed("hex_jump", "L_BRACKET")
     /\ Failing(parser) => parser'.mode = parser.mode]_vars

\* The tokenizer has just been switched to hex-jump mode inside a hex
\* pattern, after the `[` of a jump.
C35_Witness ==
  /\ g.op = "enter_hex_jump_mode"
  /\ parser.mode = "hex_jump"
  /\ parser.state = "OK"
  /\ toks[parser.pos] = "L_BRACKET"
  /\ g.peeked = parser.pos


(***************************************************************************)
(* Fuel accounting.                                                        *)
(***************************************************************************)
\* C36: fuel never goes below 0, and parsing is aborted as soon as it
\* reaches 0: a begin that takes the fuel to 0 leaves the state OutOfFuel
\* (or EndOfInput), and so does every state in which the fuel is 0.
C36_FuelAccounting ==
  [][/\ parser'.fuel >= 0
     /\ (parser.fuel > 0 /\ parser'.fuel = 0) =>
          parser'.state \in {"OutOfFuel", "EndOfInput"}]_vars


(***************************************************************************)
(* Failure propagation.                                                    *)
(***************************************************************************)
\* The combinators that are to do nothing in state Failure.
Propagating ==
  {"expect", "opt", "not", "if_next", "n_or_more", "then", "alt", "cached",
   "enter_hex_pattern_mode", "enter_hex_jump_mode"}

\* C37: called in state Failure, each of expect, expect_d, opt, not, if_next,
\* cond, n_or_more, then, alt, trivia, cached, enter_hex_pattern_mode and
\* enter_hex_jump_mode returns at once: its production is not run, no token
\* is consumed, no event appended, the expected-token map, unexpected-token
\* set, pending-error queue and failure cache are as they were, and the state
\* is still Failure.
C37_FailurePropagates ==
  [][(parser.state = "Failure" /\ \E op \in Propagating : Running(op)) =>
       /\ parser' = parser
       /\ trivia(parser) = parser
       /\ stack' = Advance(stack)]_vars


(***************************************************************************)
(* Depth counters.                                                         *)
(***************************************************************************)
\* Number of closures on the stack that were called by one of `ctls`.
Enclosing(ctls) == Cardinality({k \in 1..Len(stack) : stack[k].ctl \in ctls})

\* C38: the depth counters are balanced.  opt_depth counts the productions
\* of opt, of the optional runs of n_or_more and of alt that are running, and
\* not_depth those of not, so that each combinator returns with the counters
\* it was called with, whatever the outcome of its production; both are 0
\* whenever the driver returns an event to the caller.
C38_DepthsBalanced ==
  /\ parser.opt_depth = Enclosing({"opt", "loop", "alt"})
  /\ parser.not_depth = Enclosing({"not"})
  /\ pc = "idle" => parser.opt_depth = 0 /\ parser.not_depth = 0

\* A combinator has returned after fuel ran out in its production.
C38_Witness ==
  /\ g.op \in {"opt_return", "not_return", "loop_return", "alt_return"}
  /\ parser.state = "OutOfFuel"


(***************************************************************************)
(* Bookmarks.                                                              *)
(***************************************************************************)
\* The frames whose choice has its bookmark: begin_alt was called and
\* end_alt was not.
HoldsChoice ==
  {k \in 1..Len(stack) :
     /\ stack[k].pc <= Len(Code(stack[k]))
     /\ Code(stack[k])[stack[k].pc].op \in {"alt", "end_alt"}}

\* C39: bookmark discipline.  The bookmarks outstanding are exactly those of
\* the productions of opt, not and the optional runs of n_or_more that are
\* running and of the choices between begin_alt and end_alt, so that each is
\* removed exactly once before its combinator (or the matching end_alt)
\* returns, on every path; none is outstanding when the driver returns an
\* event to the caller; and an alternative, which rewinds to the bookmark of
\* its choice, only runs while the choice still has it.
C39_BookmarkDiscipline ==
  /\ parser.bookmarks =
       Enclosing({"opt", "not", "loop"}) + Cardinality(HoldsChoice)
  /\ pc = "idle" => parser.bookmarks = 0
  /\ \A k \in 2..Len(stack) : stack[k].ctl = "alt" => (k - 1) \in HoldsChoice

\* end_alt has returned after fuel ran out in one of the alternatives, inside
\* a production that holds a bookmark of its own.
C39_Witness ==
  /\ g.op = "end_alt"
  /\ parser.state = "OutOfFuel"
  /\ parser.bookmarks > 0

=============================================================================
